---- MODULE Spec2Model ----
(***************************************************************************)
(* A model of the connection pool of mysql_async (src/conn/pool/mod.rs):   *)
(* the five collections of Pool.Inner, the parked tasks, the connections'  *)
(* flags the pool routes on, and the futures that drive it (GetConn,       *)
(* DisconnectPool, and the background futures stored in the collections).  *)
(***************************************************************************)
EXTENDS Integers, Sequences, FiniteSets, TLC

\* ------------------------------------------------------------------ bounds

\* Connections that may be alive at once (ids 1..MaxConns; the id of a
\* destroyed connection is used again).
MaxConns == 2

\* Concurrent GetConn futures, each driven by a task of its own.
NumGetters == 2

ConnIds == 1..MaxConns

Getters == 1..NumGetters

\* The task that polls the DisconnectPool future.
DpTask == 0

\* No task has polled the future yet.
NoTask == -1

\* The configurations the pool is run with: pool_min and pool_max of Opts
\* (from_url rejects pool_min > pool_max), conn_ttl (an Option: <<>> is None,
\* <<t>> is Some(t)), and the wait_timeout the server reports to every
\* connection (seconds).
Configs ==
    {[pool_min |-> 0, pool_max |-> 1, conn_ttl |-> <<>>, wait_timeout |-> 0],
     [pool_min |-> 1, pool_max |-> 1, conn_ttl |-> <<0>>, wait_timeout |-> 1],
     [pool_min |-> 1, pool_max |-> 2, conn_ttl |-> <<>>, wait_timeout |-> 0],
     [pool_min |-> 1, pool_max |-> 2, conn_ttl |-> <<0>>, wait_timeout |-> 1]}

VARIABLES
    opts,             \* Pool.opts / Pool.min / Pool.max, and the server's wait_timeout
    inner,            \* Pool.inner: struct Inner
    conns,            \* the Conn objects, by id
    fut,              \* per stored future: the task its last poll registered
    leased,           \* connections held by borrowers
    getconn,          \* the GetConn future of each task
    disconnect_pool,  \* the DisconnectPool future
    events,           \* the drops, returns and errors of the last operation, in order
    rp,               \* a ReadPacket future: its connection, its stream, its outcome
    qr,               \* a QueryResult, the connection under it and the future consuming it
    stmt,             \* a connection's statement cache and the Prepare or BatchExec on it
    new_conn,         \* a NewConn future and the packets of its stream
    url,              \* a URL given to Opts::from_url, and what from_url returned
    connecting        \* a ConnectingStream future and the connects it races

vars == <<opts, inner, conns, fut, leased, getconn, disconnect_pool, events, rp, qr,
          stmt, new_conn, url, connecting>>

\* ------------------------------------------------------------------ data

\* struct Conn, the fields the pool reads (last_io is read against the clock
\* when the connection is returned: see idle_duration).
BlankConn ==
    [has_result |-> FALSE, in_transaction |-> FALSE, wait_timeout |-> 0,
     stream |-> TRUE, pool |-> FALSE]

\* struct Inner after Pool::new.
NewInner ==
    [closed |-> FALSE, new |-> <<>>, idle |-> <<>>, disconnecting |-> <<>>,
     dropping |-> <<>>, rollback |-> <<>>, tasks |-> <<>>]

Range(s) == {s[i] : i \in 1..Len(s)}

\* The connections a collection of futures holds.
InFutures(in) ==
    Range(in.new) \cup Range(in.disconnecting) \cup Range(in.dropping) \cup Range(in.rollback)

\* Every connection that is alive: leased, idle, or inside a future.
Alive == leased \cup Range(inner.idle) \cup InFutures(inner)

\* The ceiling return_conn compares with under a configuration, once the
\* connection has read the server's wait_timeout.
Ceiling(o) == IF o.conn_ttl # <<>> THEN o.conn_ttl[1] ELSE o.wait_timeout

\* SteadyTime::now() - conn.last_io in whole seconds, as return_conn may find
\* it. return_conn only compares it with the ceiling, so every duration above
\* the ceiling is the same as ceiling + 1.
Ages == 0..(Ceiling(opts) + 1)

\* What the poll of a stored future returns in one service pass: NotReady,
\* Err, or Ok(Ready) with the seconds since the connection's last packet.
Outcomes ==
    {[res |-> "pending", age |-> 0], [res |-> "failed", age |-> 0]}
        \cup {[res |-> "ready", age |-> a] : a \in Ages}

\* ------------------------------------------------------------------ helpers

\* Vec::swap_remove(i): the last element takes the place of the removed one.
SwapRemove(s, i) ==
    IF i = Len(s)
    THEN SubSeq(s, 1, Len(s) - 1)
    ELSE [k \in 1..(Len(s) - 1) |-> IF k = i THEN s[Len(s)] ELSE s[k]]

\* The removal of the done futures from the lowest index up: the fault
\* C39_ExactRemoval excludes.
RECURSIVE RemoveDone_ascending(_, _)
RemoveDone_ascending(s, done) ==
    IF done = <<>>
    THEN s
    ELSE RemoveDone_ascending(SwapRemove(s, Head(done)), Tail(done))

\* while let Some(i) = done_fut_idxs.pop() { vec.swap_remove(i) }
RECURSIVE RemoveDone(_, _)
RemoveDone(s, done) ==
    IF done = <<>>
    THEN s
    ELSE RemoveDone(SwapRemove(s, done[Len(done)]), SubSeq(done, 1, Len(done) - 1))

Emit(w, e) == [w EXCEPT !.ev = Append(@, e)]

\* conn.disconnect() / conn.drop_result() / conn.rollback_transaction():
\* the connection moves into a fresh future pushed onto a collection. The
\* future has not been polled; what its first poll returns is the next
\* outcome w.then holds for the connection (NotReady when it holds none).
\* Disconnect consumes the Conn: only its stream lives on in the future.
PushFuture(w, vec, c) ==
    [w EXCEPT !.inner[vec] = Append(@, c),
              !.fut[c] = NoTask,
              !.io[c] = IF w.then[c] = <<>>
                        THEN [res |-> "pending", age |-> 0]
                        ELSE Head(w.then[c]),
              !.then[c] = IF @ = <<>> THEN <<>> ELSE Tail(@),
              !.conns[c] = IF vec = "disconnecting" THEN BlankConn ELSE @]

\* idle_duration.num_seconds() of return_conn.
idle_duration(w, c) == w.io[c].age

\* The ceiling of return_conn: conn_ttl if configured, else wait_timeout.
ttl(w, c) ==
    IF w.opts.conn_ttl # <<>> THEN w.opts.conn_ttl[1] ELSE w.conns[c].wait_timeout

\* The wake-up loop taking the tokens from the head of tasks, oldest first:
\* the fault C34_WokenLifo excludes.
RECURSIVE UnparkAll_from_head(_)
UnparkAll_from_head(w) ==
    IF w.inner.tasks = <<>>
    THEN w
    ELSE LET t == Head(w.inner.tasks)
         IN UnparkAll_from_head([w EXCEPT !.inner.tasks = Tail(@),
                                          !.woken = @ \cup {t},
                                          !.ev = Append(@, [op |-> "unpark", task |-> t])])

\* while let Some(task) = tasks.pop() { task.unpark() }
RECURSIVE UnparkAll(_)
UnparkAll(w) ==
    IF w.inner.tasks = <<>>
    THEN w
    ELSE LET n == Len(w.inner.tasks)
             t == w.inner.tasks[n]
         IN UnparkAll([w EXCEPT !.inner.tasks = SubSeq(@, 1, n - 1),
                                !.woken = @ \cup {t},
                                !.ev = Append(@, [op |-> "unpark", task |-> t])])

\* Where the connection handed to return_conn comes from: the collection
\* whose future yielded it (the future is removed after the loop of handle!),
\* or a borrower.
origin(w, c) ==
    IF c \in Range(w.inner.new) THEN "new"
    ELSE IF c \in Range(w.inner.dropping) THEN "dropping"
    ELSE IF c \in Range(w.inner.rollback) THEN "rollback"
    ELSE "lease"

\* What return_conn saw of the connection and where it put it, for the
\* record of the operation.
ReturnEvent(w, c, dest) ==
    [op |-> "return", conn |-> c, from |-> origin(w, c), dest |-> dest,
     secs |-> idle_duration(w, c),
     has_result |-> w.conns[c].has_result,
     in_transaction |-> w.conns[c].in_transaction,
     idle_len |-> Len(w.inner.idle)]

\* branch with the shrink test off by one (idle_len > min): the fault
\* C3_IdleWithinPoolMin excludes.
branch_above_min(w, c) ==
    IF idle_duration(w, c) > ttl(w, c) THEN "expired"
    ELSE IF w.conns[c].has_result THEN "dropping"
    ELSE IF w.conns[c].in_transaction THEN "rollback"
    ELSE IF Len(w.inner.idle) > w.opts.pool_min THEN "disconnecting"
    ELSE "idle"

\* branch with the transaction tested before the result: the fault
\* C4_ReturnRouting excludes.
branch_rollback_first(w, c) ==
    IF idle_duration(w, c) > ttl(w, c) THEN "expired"
    ELSE IF w.conns[c].in_transaction THEN "rollback"
    ELSE IF w.conns[c].has_result THEN "dropping"
    ELSE IF Len(w.inner.idle) >= w.opts.pool_min THEN "disconnecting"
    ELSE "idle"

\* branch without the test of has_result: the fault C5_DirtyReturn excludes.
branch_keep_result(w, c) ==
    IF idle_duration(w, c) > ttl(w, c) THEN "expired"
    ELSE IF w.conns[c].in_transaction THEN "rollback"
    ELSE IF Len(w.inner.idle) >= w.opts.pool_min THEN "disconnecting"
    ELSE "idle"

\* branch without the test of in_transaction: the fault
\* C6_AbandonedTransaction excludes.
branch_keep_transaction(w, c) ==
    IF idle_duration(w, c) > ttl(w, c) THEN "expired"
    ELSE IF w.conns[c].has_result THEN "dropping"
    ELSE IF Len(w.inner.idle) >= w.opts.pool_min THEN "disconnecting"
    ELSE "idle"

\* branch with the room in idle tested before the state of the connection:
\* the fault C38_IdleClean excludes.
branch_room_first(w, c) ==
    IF idle_duration(w, c) > ttl(w, c) THEN "expired"
    ELSE IF Len(w.inner.idle) < w.opts.pool_min THEN "idle"
    ELSE IF w.conns[c].has_result THEN "dropping"
    ELSE IF w.conns[c].in_transaction THEN "rollback"
    ELSE "disconnecting"

\* The branch return_conn takes on an open pool.
branch(w, c) ==
    IF idle_duration(w, c) > ttl(w, c) THEN "expired"
    ELSE IF w.conns[c].has_result THEN "dropping"
    ELSE IF w.conns[c].in_transaction THEN "rollback"
    ELSE IF Len(w.inner.idle) >= w.opts.pool_min THEN "disconnecting"
    ELSE "idle"

\* return_conn without the return after the expired connection was queued
\* for disconnection, so that it goes on to idle as well: the fault
\* C29_Disjoint excludes.
returned_fallthrough(w, c, b) ==
    IF b = "expired"
    THEN UnparkAll([PushFuture(Emit(w, ReturnEvent(w, c, "disconnecting")),
                               "disconnecting", c) EXCEPT !.inner.idle = Append(@, c)])
    ELSE IF b = "idle"
    THEN UnparkAll([Emit(w, ReturnEvent(w, c, b)) EXCEPT !.inner.idle = Append(@, c)])
    ELSE UnparkAll(PushFuture(Emit(w, ReturnEvent(w, c, b)), b, c))

\* What the branch b of return_conn does with the connection: the expired
\* one is queued for disconnection and return_conn returns at once; the
\* others end in the loop that unparks every parked task.
returned(w, c, b) ==
    IF b = "expired"
    THEN PushFuture(Emit(w, ReturnEvent(w, c, "disconnecting")), "disconnecting", c)
    ELSE IF b = "idle"
    THEN UnparkAll([Emit(w, ReturnEvent(w, c, b)) EXCEPT !.inner.idle = Append(@, c)])
    ELSE UnparkAll(PushFuture(Emit(w, ReturnEvent(w, c, b)), b, c))

\* Pool::return_conn
return_conn(w, c) ==
    IF w.inner.closed
    THEN Emit(w, ReturnEvent(w, c, "destroyed"))
    ELSE returned(w, c, branch(w, c))

\* The connection a completed future yields: DropResult has drained the
\* result, DropQuery("ROLLBACK") has closed the transaction, NewConn has read
\* the server's wait_timeout.
Yielded(w, vec, c) ==
    [w EXCEPT !.conns[c].has_result = IF vec = "dropping" THEN FALSE ELSE @,
              !.conns[c].in_transaction = IF vec = "rollback" THEN FALSE ELSE @,
              !.conns[c].wait_timeout = IF vec = "new" THEN w.opts.wait_timeout ELSE @]

\* let closed = self.inner_ref().closed; if closed { disconnecting.push(
\* conn.disconnect()) } else { self.return_conn(conn) }
Rearm(y, vec, c) ==
    IF y.inner.closed
    THEN PushFuture(Emit(y, [op |-> "disconnect", conn |-> c, from |-> vec]),
                    "disconnecting", c)
    ELSE return_conn(y, c)

\* The arms of handle! for Ok(Ready(conn)) of dropping, rollback and new.
ReadyArm(w, vec, c) == Rearm(Yielded(w, vec, c), vec, c)

\* let result = self.inner_mut().$vec.get_mut(i).unwrap().poll(), for the
\* record of the operation.
Poll(w, vec, i, c, result) ==
    Emit(w, [op |-> "poll", vec |-> vec, index |-> i, conn |-> c, res |-> result])

\* One turn of the loop of handle!: the future of connection c, at index i
\* of the collection, was polled by who and returned result. st.done is
\* done_fut_idxs, st.handled the flag, st.err an early return of Err.
handle_one(st, vec, i, c, result, who) ==
    IF result = "ready"
    THEN [w |-> IF vec = "disconnecting"
                THEN Poll(st.w, vec, i, c, result)
                ELSE ReadyArm(Poll(st.w, vec, i, c, result), vec, c),
          done |-> Append(st.done, i), handled |-> TRUE, err |-> FALSE]
    ELSE IF result = "failed"
    THEN IF vec = "new" /\ ~st.w.inner.closed
         THEN [w |-> [Poll(st.w, vec, i, c, result)
                          EXCEPT !.inner[vec] = RemoveDone(@, Append(st.done, i))],
               done |-> <<>>, handled |-> st.handled, err |-> TRUE]
         ELSE [w |-> Poll(st.w, vec, i, c, result),
               done |-> Append(st.done, i), handled |-> st.handled, err |-> FALSE]
    ELSE [w |-> [Poll(st.w, vec, i, c, result) EXCEPT !.fut[c] = who],
          done |-> st.done, handled |-> st.handled, err |-> FALSE]

\* The loop of the handle! macro over the futures 1..len of one collection.
RECURSIVE handle_loop(_, _, _, _, _)
handle_loop(st, vec, i, len, who) ==
    IF st.err
    THEN st
    ELSE IF i > len
    THEN [st EXCEPT !.w.inner[vec] = RemoveDone(@, st.done)]
    ELSE handle_loop(handle_one(st, vec, i, st.w.inner[vec][i],
                                st.w.io[st.w.inner[vec][i]].res, who),
                     vec, i + 1, len, who)

\* handle!(vec { ... })
handle(w, vec, who) ==
    handle_loop([w |-> w, done |-> <<>>, handled |-> FALSE, err |-> FALSE],
                vec, 1, Len(w.inner[vec]), who)

\* The end of one pass of handle_futures, for the record of the operation:
\* the flag handled, and whether the pass ended in the early return of Err.
Pass(w, handled, err) == Emit(w, [op |-> "pass", handled |-> handled, err |-> err])

\* handle_futures that returns after one pass whatever it handled: the fault
\* C31_Fixpoint excludes.
handle_futures_once(w, who) ==
    LET d == handle(w, "disconnecting", who)
        r == handle(d.w, "dropping", who)
        t == handle(r.w, "rollback", who)
        n == handle(t.w, "new", who)
    IN [w |-> Pass(n.w, d.handled \/ r.handled \/ t.handled \/ n.handled, n.err),
        err |-> n.err]

\* Pool::handle_futures: the four handle! blocks in the order of the source
\* (st is the outcome of the block before, handled the flag so far), then
\* the recursion when some future was handled.
RECURSIVE handle_futures(_, _)
RECURSIVE handle_from(_, _, _, _)
handle_from(st, handled, rest, who) ==
    IF st.err
    THEN [w |-> Pass(st.w, handled \/ st.handled, TRUE), err |-> TRUE]
    ELSE IF rest = <<>>
    THEN IF handled \/ st.handled
         THEN handle_futures(Pass(st.w, TRUE, FALSE), who)
         ELSE [w |-> Pass(st.w, FALSE, FALSE), err |-> FALSE]
    ELSE handle_from(handle(st.w, Head(rest), who), handled \/ st.handled,
                     Tail(rest), who)

handle_futures(w, who) ==
    handle_from(handle(w, "disconnecting", who), FALSE,
                <<"dropping", "rollback", "new">>, who)

\* Pool::take_conn, on a non-empty idle
take_conn(w) ==
    LET n == Len(w.inner.idle)
        c == w.inner.idle[n]
    IN [w |-> [w EXCEPT !.inner.idle = SubSeq(@, 1, n - 1), !.conns[c].pool = TRUE],
        conn |-> c]

\* self.inner_mut().tasks.push(park()). A task that parks again while an
\* older token of it is still in tasks is kept once, at the tail: return_conn
\* pops every token, tail first, and a second unpark of a task does nothing,
\* so the older token has no effect of its own.
park(w, g) ==
    [w EXCEPT !.inner.tasks = Append(SelectSeq(@, LAMBDA t : t # g), g)]

\* may_launch that allows a handshake beside one in flight (new_len <= 1):
\* the fault C37_OneHandshake excludes.
may_launch_beside(w) ==
    Len(w.inner.new) <= 1 /\ Len(w.inner.idle) < w.opts.pool_max

\* The condition under which Pool::poll launches a handshake.
may_launch(w) ==
    Len(w.inner.new) = 0 /\ Len(w.inner.idle) < w.opts.pool_max

\* The ids no live connection of w uses.
FreeIds(w) == ConnIds \ (w.held \cup Range(w.inner.idle) \cup InFutures(w.inner))

\* Conn::new(opts, handle) pushed onto new
launch(w) ==
    LET c == CHOOSE x \in FreeIds(w) : \A y \in FreeIds(w) : x <= y
    IN [PushFuture(w, "new", c) EXCEPT !.conns[c] = BlankConn]

\* Pool::poll, polled by the GetConn of task g: the part after
\* self.handle_futures()?, h being what handle_futures returned.
RECURSIVE poll(_, _)
poll_after(h, g) ==
    IF h.err
    THEN [w |-> h.w, res |-> "Err", kind |-> "Handshake", conn |-> 0]
    ELSE IF h.w.inner.idle # <<>>
    THEN [w |-> take_conn(h.w).w, res |-> "Ready", kind |-> "",
          conn |-> take_conn(h.w).conn]
    ELSE IF may_launch(h.w)
    THEN IF FreeIds(h.w) = {}
         THEN [w |-> h.w, res |-> "Bound", kind |-> "", conn |-> 0]
         ELSE poll(launch(h.w), g)
    ELSE [w |-> park(h.w, g), res |-> "NotReady", kind |-> "", conn |-> 0]

\* Pool::poll without the test of closed: the fault C8_ClosedPoolFails
\* excludes.
poll_unguarded(w, g) == poll_after(handle_futures(w, g), g)

\* Pool::poll
poll(w, g) ==
    IF w.inner.closed
    THEN [w |-> w, res |-> "Err", kind |-> "PoolDisconnected", conn |-> 0]
    ELSE poll_after(handle_futures(w, g), g)

\* ------------------------------------------------------------------ state

\* The part of the state the pool's methods work on, at the start of an
\* operation: nothing woken yet, nothing recorded yet. io is what the polls
\* of the stored futures return during the operation.
World(io) ==
    [opts |-> opts, inner |-> inner, conns |-> conns, fut |-> fut,
     held |-> leased, io |-> io, then |-> [c \in DOMAIN io |-> <<>>],
     woken |-> {}, ev |-> <<>>]

\* No stored future makes progress.
Quiet == [c \in ConnIds |-> [res |-> "pending", age |-> 0]]

\* The outcomes a service pass may meet: one per stored future; a Disconnect
\* yields no connection, so the age of its outcome plays no part.
PassOutcomes ==
    {io \in [ConnIds -> Outcomes] :
        \A c \in ConnIds :
            /\ c \notin InFutures(inner) => io[c] = Quiet[c]
            /\ c \in Range(inner.disconnecting) => io[c].age = 0}

\* task.unpark(): a parked future becomes runnable again.
Woken(ws) ==
    /\ getconn' = [g \in Getters |->
                      IF g \in ws /\ getconn[g] = "parked" THEN "runnable" ELSE getconn[g]]
    /\ disconnect_pool' =
           IF DpTask \in ws /\ disconnect_pool = "parked" THEN "runnable" ELSE disconnect_pool

\* What an operation did to connections and tasks, as events keeps it: the
\* polls and passes of handle_futures are kept by the service pass alone.
Outward(e) == e.op \in {"return", "drop", "error", "unpark"}

\* The state an operation leaves. Futures of connections that left the
\* collections are gone, and so are the connections that were destroyed.
Settle(w, held) ==
    /\ leased' = held
    /\ inner' = w.inner
    /\ conns' = [c \in ConnIds |->
                     IF c \in Range(w.inner.idle) \cup InFutures(w.inner) \cup held
                     THEN w.conns[c] ELSE BlankConn]
    /\ fut' = [c \in ConnIds |-> IF c \in InFutures(w.inner) THEN w.fut[c] ELSE NoTask]
    /\ events' = SelectSeq(w.ev, Outward)

\* No ReadPacket and no QueryResult: the pool is modelled down to the lease
\* of a connection, the packets of a leased connection apart from it.
NoRead == [out |-> [res |-> "none"]]

NoQuery == [state |-> "none"]

\* No Prepare, no NewConn, no URL, no ConnectingStream.
NoStmt == [state |-> "none"]

NoNewConn == [step |-> "none"]

NoUrl == [out |-> [res |-> "none"]]

NoConnecting == [step |-> "none"]

\* The layers above the packets, left alone.
NoCommands ==
    /\ stmt = NoStmt
    /\ new_conn = NoNewConn
    /\ url = NoUrl
    /\ connecting = NoConnecting

Init ==
    /\ opts \in Configs
    /\ inner = NewInner
    /\ conns = [c \in ConnIds |-> BlankConn]
    /\ fut = [c \in ConnIds |-> NoTask]
    /\ leased = {}
    /\ getconn = [g \in Getters |-> "none"]
    /\ disconnect_pool = "none"
    /\ events = <<>>
    /\ rp = NoRead
    /\ qr = NoQuery
    /\ NoCommands

\* ------------------------------------------------------------------ actions

\* Pool::get_conn: a task creates a GetConn future (the lowest free task).
GetConn(g) ==
    /\ getconn[g] = "none"
    /\ \A h \in Getters : h < g => getconn[h] # "none"
    /\ getconn' = [getconn EXCEPT ![g] = "runnable"]
    /\ events' = <<>>
    /\ UNCHANGED <<opts, inner, conns, fut, leased, disconnect_pool, rp, qr, stmt, new_conn, url, connecting>>

\* What the task of a GetConn does with the result r of Pool::poll: the
\* future resolves (Ready, Err) or stays pending, parked unless a token of
\* the task was unparked during the poll. The polls that registered the
\* future happened whatever each returned.
Resolve(g, r) ==
    /\ r.res # "Bound"
    /\ Settle(IF r.res = "Err"
              THEN Emit(r.w, [op |-> "error", task |-> g, kind |-> r.kind])
              ELSE r.w,
              IF r.res = "Ready" THEN leased \cup {r.conn} ELSE leased)
    /\ getconn' = [h \in Getters |->
           IF h = g
           THEN IF r.res # "NotReady" THEN "none"
                ELSE IF g \in r.w.woken THEN "runnable" ELSE "parked"
           ELSE IF h \in r.w.woken /\ getconn[h] = "parked" THEN "runnable"
                ELSE getconn[h]]

\* GetConn::poll, run by the event loop when the task is runnable.
PollGetConn(g) ==
    /\ getconn[g] = "runnable"
    /\ \E io \in PassOutcomes : Resolve(g, poll(World(io), g))
    /\ UNCHANGED <<opts, disconnect_pool, rp, qr, stmt, new_conn, url, connecting>>

\* What a borrower may have done with a leased connection by the time it
\* lets go of it: a query whose result it did not consume (has_result), a
\* transaction it did not close (in_transaction), an I/O future that still
\* holds the stream (stream = FALSE).
Uses(c) ==
    {[conns[c] EXCEPT !.has_result = h, !.in_transaction = t, !.stream = s] :
        h \in BOOLEAN, t \in BOOLEAN, s \in BOOLEAN}

\* impl Drop for Conn without the test of the stream: the fault
\* C13_DropReturnsOnce excludes.
drop_any(w, c) ==
    IF w.conns[c].pool
    THEN return_conn([w EXCEPT !.conns[c].pool = FALSE], c)
    ELSE w

\* impl Drop for Conn
drop(w, c) ==
    IF w.conns[c].pool
    THEN IF w.conns[c].stream
         THEN return_conn([w EXCEPT !.conns[c].pool = FALSE], c)
         ELSE [w EXCEPT !.conns[c].pool = FALSE]
    ELSE w

Dropped(w) ==
    /\ Settle(w, w.held)
    /\ Woken(w.woken)

\* The Conn c, as the borrower left it (used), is dropped age seconds after
\* its last packet; error is what made the borrower's future drop it
\* ("none": the borrower let go of it).
LetGo(c, used, age, error) ==
    Dropped(drop(Emit([World([Quiet EXCEPT ![c].age = age])
                          EXCEPT !.conns[c] = used, !.held = leased \ {c}],
                      [op |-> "drop", conn |-> c, stream |-> used.stream,
                       error |-> error]), c))

\* A borrower lets go of a connection: with its stream, or while an I/O
\* future of the borrower holds the stream.
DropConn(c) ==
    /\ c \in leased
    /\ \E used \in Uses(c), age \in Ages : LetGo(c, used, age, "none")
    /\ UNCHANGED <<opts, rp, qr, stmt, new_conn, url, connecting>>

\* The errors ReadPacket::poll returns.
ReadErrors == {"Io", "PacketOutOfOrder", "Server", "ConnectionClosed"}

\* Whether the Conn holds its stream when a failed ReadPacket lets go of it:
\* poll gives the stream back to the connection before it looks at what was
\* read; an I/O error leaves poll before that, through try_ready!.
stream_returned(error) == error # "Io"

\* A read on a leased connection fails: ReadPacket::poll returns Err and the
\* connection it owns is dropped.
ReadFails(c) ==
    /\ c \in leased
    /\ \E error \in ReadErrors, age \in Ages :
           \E used \in {u \in Uses(c) : u.stream = stream_returned(error)} :
               LetGo(c, used, age, error)
    /\ UNCHANGED <<opts, rp, qr, stmt, new_conn, url, connecting>>

\* while let Some(conn) = self.take_conn() { disconnecting.push(conn.disconnect()) }
RECURSIVE DrainIdle(_)
DrainIdle(w) ==
    IF w.inner.idle = <<>>
    THEN w
    ELSE LET t == take_conn(w)
         IN DrainIdle(PushFuture(t.w, "disconnecting", t.conn))

\* Pool::disconnect that leaves idle as it is: the fault C10_ClosedLatch
\* excludes.
disconnect_keep_idle(w) == [w EXCEPT !.inner.closed = TRUE]

\* Pool::disconnect
disconnect(w) ==
    IF ~w.inner.closed
    THEN DrainIdle([w EXCEPT !.inner.closed = TRUE])
    ELSE w

Disconnect ==
    /\ disconnect_pool \in {"none", "done"}
    /\ Settle(disconnect(World(Quiet)), leased)
    /\ disconnect_pool' = "runnable"
    /\ UNCHANGED <<opts, getconn, rp, qr, stmt, new_conn, url, connecting>>

\* The end of DisconnectPool::poll, w being the pool after handle_futures:
\* Ready when the four collections of futures are empty.
Disconnected(w) ==
    /\ Settle(w, leased)
    /\ disconnect_pool' = IF InFutures(w.inner) = {} THEN "done" ELSE "parked"
    /\ getconn' = [g \in Getters |->
           IF g \in w.woken /\ getconn[g] = "parked" THEN "runnable" ELSE getconn[g]]

\* DisconnectPool::poll: service the collections, done when all are empty.
PollDisconnectPool ==
    /\ disconnect_pool = "runnable"
    /\ \E io \in PassOutcomes : Disconnected(handle_futures(World(io), DpTask).w)
    /\ UNCHANGED <<opts, rp, qr, stmt, new_conn, url, connecting>>

\* The reactor: the socket of a stored future has news, and the task that
\* polled the future last is notified.
Notify(t) ==
    /\ \E c \in InFutures(inner) : fut[c] = t
    /\ \/ t \in Getters /\ getconn[t] = "parked"
       \/ t = DpTask /\ disconnect_pool = "parked"
    /\ Woken({t})
    /\ events' = <<>>
    /\ UNCHANGED <<opts, inner, conns, fut, leased, rp, qr, stmt, new_conn, url, connecting>>

Next ==
    \/ \E g \in Getters : GetConn(g)
    \/ \E g \in Getters : PollGetConn(g)
    \/ \E c \in ConnIds : DropConn(c)
    \/ \E c \in ConnIds : ReadFails(c)
    \/ Disconnect
    \/ PollDisconnectPool
    \/ \E t \in Getters \cup {DpTask} : Notify(t)

Spec == Init /\ [][Next]_vars

\* ------------------------------------------------------------------ packets

\* The values a field of a packet takes (affected rows, last insert id,
\* warnings, an error code, the payload of a row).
MaxVal == 1

Vals == 0..MaxVal

\* The sequence ids: seq_id is a u8.
U8 == 256

\* u8::wrapping_add
wrapping_add(a, b) == (a + b) % U8

\* The packets of sequence id seq: OK (affected rows, last insert id and
\* warnings val, status flags with or without SERVER_MORE_RESULTS_EXISTS),
\* EOF (warnings val, status flags), ERR (code val), and any other packet
\* (payload val).
PacketsOf(seq) ==
    [type : {"Ok", "Eof"}, seq : {seq}, more : BOOLEAN, val : Vals]
        \cup [type : {"Err", "Data"}, seq : {seq}, more : {FALSE}, val : Vals]

\* The fields of a connection that a read touches. touched: touch() was
\* called (last_io is now).
ConnOf(seq) ==
    [seq_id |-> seq, more |-> FALSE, affected_rows |-> 0, last_insert_id |-> 0,
     warnings |-> 0, touched |-> FALSE]

\* The connection with the state a read has no setter for: a transaction
\* and a pending result that are both there or both not, and the statement
\* cache with them.
WithRest(c, dirty) ==
    [seq_id |-> c.seq_id, more |-> c.more, affected_rows |-> c.affected_rows,
     last_insert_id |-> c.last_insert_id, warnings |-> c.warnings,
     touched |-> c.touched, in_transaction |-> dirty, pending_result |-> dirty,
     stmt_cache |-> IF dirty THEN <<"q">> ELSE <<>>]

\* struct Stream: closed, and the complete packets in buf and next_packet
\* (partial: the first bytes of one more).
NewStream == [closed |-> FALSE, buf |-> <<>>, partial |-> FALSE]

\* What the socket holds at a poll: whole packets (data), the first bytes of
\* one more (partial), and what read returns after them: WouldBlock, Ok(0)
\* at the end of the stream, or an error.
Endpoints(seqs) ==
    [data : {<<>>} \cup {<<p>> : p \in UNION {PacketsOf(q) : q \in seqs}},
     partial : BOOLEAN, then : {"WouldBlock", "Eof", "Error"}]

Drained(e) == [e EXCEPT !.data = <<>>, !.partial = FALSE]

\* The parser of Stream::poll, s being the stream after the read loop.
Parsed(s, e) ==
    IF s.buf # <<>>
    THEN [res |-> "Ready", item |-> <<Head(s.buf)>>,
          stream |-> [s EXCEPT !.buf = Tail(@)], endpoint |-> e]
    ELSE [res |-> "NotReady", item |-> <<>>, stream |-> s, endpoint |-> e]

\* Stream::poll (item <<>> is None, <<p>> is Some(p)).
Stream_poll(s, e) ==
    IF s.closed
    THEN [res |-> "Ready", item |-> <<>>, stream |-> s, endpoint |-> e]
    ELSE IF e.then = "Error"
    THEN [res |-> "Err", item |-> <<>>,
          stream |-> [closed |-> TRUE, buf |-> s.buf \o e.data,
                      partial |-> s.partial \/ e.partial],
          endpoint |-> Drained(e)]
    ELSE Parsed([s EXCEPT !.buf = @ \o e.data, !.partial = @ \/ e.partial], Drained(e))

\* Accepted that treats an EOF packet as it does an OK packet: the fault
\* C40_ReadFrame excludes.
Accepted_eof_as_ok(c, p) ==
    [c EXCEPT !.seq_id = wrapping_add(p.seq, 1),
              !.more = IF p.type \in {"Ok", "Eof"} THEN p.more ELSE @,
              !.affected_rows = IF p.type \in {"Ok", "Eof"} THEN p.val ELSE @,
              !.last_insert_id = IF p.type \in {"Ok", "Eof"} THEN p.val ELSE @,
              !.warnings = IF p.type \in {"Ok", "Eof"} THEN p.val ELSE @,
              !.touched = TRUE]

\* The connection after an OK, EOF or other packet p was read: the setters
\* ReadPacket::poll calls, each on its own field.
Accepted(c, p) ==
    [c EXCEPT !.seq_id = wrapping_add(p.seq, 1),
              !.more = IF p.type \in {"Ok", "Eof"} THEN p.more ELSE @,
              !.affected_rows = IF p.type = "Ok" THEN p.val ELSE @,
              !.last_insert_id = IF p.type = "Ok" THEN p.val ELSE @,
              !.warnings = IF p.type \in {"Ok", "Eof"} THEN p.val ELSE @,
              !.touched = TRUE]

\* Err(kind): the connection is dropped as it was (code: the ErrPacket that
\* ErrorKind::Server carries; read: what the stream gave).
Failed(c, kind, item, code) ==
    [res |-> "Err", kind |-> kind, code |-> code, conn |-> c, packet |-> <<>>,
     read |-> item]

Pending(c) ==
    [res |-> "NotReady", kind |-> "none", code |-> <<>>, conn |-> c, packet |-> <<>>,
     read |-> <<>>]

Yields(c, p) ==
    [res |-> "Ready", kind |-> "none", code |-> <<>>, conn |-> Accepted(c, p),
     packet |-> <<p>>, read |-> <<p>>]

\* ReadPacket::poll without the comparison of sequence ids: the fault
\* C14_SequenceIds excludes.
ReadPacket_poll_any_seq(c, r) ==
    IF r.res = "NotReady" THEN Pending(c)
    ELSE IF r.res = "Err" THEN Failed(c, "Io", <<>>, <<>>)
    ELSE IF r.item = <<>> THEN Failed(c, "ConnectionClosed", <<>>, <<>>)
    ELSE IF r.item[1].type = "Err" THEN Failed(c, "Server", r.item, <<r.item[1].val>>)
    ELSE Yields(c, r.item[1])

\* ReadPacket::poll that hands an ERR packet to the caller as it does any
\* other packet: the fault C16_ErrPacket excludes.
ReadPacket_poll_err_yielded(c, r) ==
    IF r.res = "NotReady" THEN Pending(c)
    ELSE IF r.res = "Err" THEN Failed(c, "Io", <<>>, <<>>)
    ELSE IF r.item = <<>> THEN Failed(c, "ConnectionClosed", <<>>, <<>>)
    ELSE IF c.seq_id # r.item[1].seq THEN Failed(c, "PacketOutOfOrder", r.item, <<>>)
    ELSE Yields(c, r.item[1])

\* ReadPacket::poll, r being what the poll of the stream returned.
ReadPacket_poll(c, r) ==
    IF r.res = "NotReady" THEN Pending(c)
    ELSE IF r.res = "Err" THEN Failed(c, "Io", <<>>, <<>>)
    ELSE IF r.item = <<>> THEN Failed(c, "ConnectionClosed", <<>>, <<>>)
    ELSE IF c.seq_id # r.item[1].seq THEN Failed(c, "PacketOutOfOrder", r.item, <<>>)
    ELSE IF r.item[1].type = "Err" THEN Failed(c, "Server", r.item, <<r.item[1].val>>)
    ELSE Yields(c, r.item[1])

\* A ReadPacket on a connection whose seq_id is any u8, over a fresh Stream:
\* the socket holds packets of the expected sequence id or of the next one.
ReadInputs ==
    UNION {[conn : {WithRest(ConnOf(seq), dirty) : dirty \in BOOLEAN}, stream : {NewStream},
            endpoint : Endpoints({seq, wrapping_add(seq, 1)}),
            before : {ConnOf(seq)}, out : {[res |-> "none"]}] : seq \in 0..(U8 - 1)}

\* The pool, left alone.
PoolAside ==
    /\ opts = [pool_min |-> 0, pool_max |-> 1, conn_ttl |-> <<>>, wait_timeout |-> 0]
    /\ inner = NewInner
    /\ conns = [c \in ConnIds |-> BlankConn]
    /\ fut = [c \in ConnIds |-> NoTask]
    /\ leased = {}
    /\ getconn = [g \in Getters |-> "none"]
    /\ disconnect_pool = "none"
    /\ events = <<>>

PoolVars == <<opts, inner, conns, fut, leased, getconn, disconnect_pool, events>>

PacketInit ==
    /\ PoolAside
    /\ rp \in ReadInputs
    /\ qr = NoQuery
    /\ NoCommands

\* The state of the future after its poll returned o over the stream poll r.
Polled(r, o) ==
    rp' = [conn |-> o.conn, stream |-> r.stream, endpoint |-> r.endpoint,
           before |-> rp.conn, out |-> o]

\* The task polls the ReadPacket while it is pending.
PollRead ==
    /\ rp.out.res \in {"none", "NotReady"}
    /\ Polled(Stream_poll(rp.stream, rp.endpoint),
              ReadPacket_poll(rp.conn, Stream_poll(rp.stream, rp.endpoint)))
    /\ UNCHANGED <<PoolVars, qr, stmt, new_conn, url, connecting>>

PacketNext == PollRead

PacketSpec == PacketInit /\ [][PacketNext]_vars

\* ------------------------------------------------------------------ results

\* The rows of a result set and the result sets of a response, at most.
MaxRows == 2

MaxSets == 2

\* The capabilities NewConn asks the server for.
Capabilities ==
    {"CLIENT_PROTOCOL_41", "CLIENT_SECURE_CONNECTION", "CLIENT_LONG_PASSWORD",
     "CLIENT_TRANSACTIONS", "CLIENT_LOCAL_FILES", "CLIENT_MULTI_STATEMENTS",
     "CLIENT_MULTI_RESULTS", "CLIENT_PS_MULTI_RESULTS"}

\* Protocol::is_last_result_set_packet
is_last_result_set_packet(protocol, p) ==
    IF protocol = "Text"
    THEN IF "CLIENT_DEPRECATE_EOF" \in Capabilities
         THEN p.type = "Ok"
         ELSE p.type = "Eof"
    ELSE p.type = "Eof"

\* A packet the server sends, before its place in the exchange gives it a
\* sequence id.
Tag(type, more, val) == [type |-> type, more |-> more, val |-> val]

\* The row packets of one result set.
RowPackets ==
    UNION {{[i \in 1..n |-> Tag("Data", FALSE, f[i])] : f \in [1..n -> Vals]} :
               n \in 0..MaxRows}

\* The answer to one statement, k being the statements that are left: an OK
\* packet, or the header of a result set (one packet here, whose payload
\* names the columns), its rows and the EOF packet that ends them. more is
\* SERVER_MORE_RESULTS_EXISTS in the status flags of the OK or EOF packet.
Answer(k, more) ==
    {<<Tag("Ok", more, MaxVal)>>}
        \cup {<<Tag("Data", FALSE, k)>> \o rows \o <<Tag("Eof", more, 0)>> :
                  rows \in RowPackets}

\* The answer to a statement that fails, at once or among the rows.
Refusal(k) ==
    {<<Tag("Err", FALSE, MaxVal)>>}
        \cup {<<Tag("Data", FALSE, k)>> \o rows \o <<Tag("Err", FALSE, MaxVal)>> :
                  rows \in RowPackets}

\* What the server sends in response to a query of at most k statements.
RECURSIVE Responses(_)
Responses(k) ==
    Answer(k, FALSE) \cup Refusal(k)
        \cup (IF k > 1
              THEN {a \o b : a \in Answer(k, TRUE), b \in Responses(k - 1)}
              ELSE {})

\* The packets of a response, numbered after the command packet.
Numbered(s) ==
    [i \in 1..Len(s) |->
        [type |-> s[i].type, seq |-> i % U8, more |-> s[i].more, val |-> s[i].val]]

QueryResponses == {Numbered(s) : s \in Responses(MaxSets)}

PingResponses == {Numbered(<<Tag(t, FALSE, MaxVal)>>) : t \in {"Ok", "Err"}}

\* A connection that a borrower holds, and what it runs on it: state is
\* what the borrower has in hand (the Conn, a QueryResult, a pending future,
\* nothing after a failure or a quit); result and columns are the
\* QueryResultInner; op and stage are the pending future and the future it
\* waits on; script is what the server sends, taken how much of it the
\* futures took from the stream; acc is what the callback of the consumer
\* received; from is the result when the operation began; and_drop: the
\* future is chained to drop_result. NewConn leaves
\* seq_id at the sequence id of the last packet of the handshake.
NewQuery ==
    [state |-> "conn", conn |-> ConnOf(2), pending |-> FALSE, stream |-> NewStream,
     wire |-> <<>>, result |-> "none", columns |-> 0, op |-> "none", stage |-> "none",
     acc |-> <<>>, script |-> <<>>, taken |-> 0,
     from |-> [taken |-> 0, result |-> "none", columns |-> 0],
     out |-> [res |-> "none", kind |-> "none", row |-> <<>>], cmd |-> <<>>,
     and_drop |-> FALSE, either |-> "A", reading |-> FALSE, panic |-> "none"]

\* What read returns at this poll: the packets that arrived, then WouldBlock.
Socket(q) == [data |-> q.wire, partial |-> FALSE, then |-> "WouldBlock"]

\* take_stream that leaves the value holding its stream (Either A is kept):
\* the fault C33_OneHolder excludes.
take_stream_kept(q) ==
    IF q.either = "A"
    THEN q
    ELSE [q EXCEPT !.panic = "stream taken"]

\* ConnectionLike::take_stream: a value that holds its stream (Either A)
\* gives it up and is streamless (B); on a streamless one it panics.
take_stream(q) ==
    IF q.either = "A"
    THEN [q EXCEPT !.either = "B"]
    ELSE [q EXCEPT !.panic = "stream taken"]

\* ConnectionLike::return_stream: a streamless value (B) holds its stream
\* again (A); on one that holds its stream it panics.
return_stream(q) ==
    IF q.either = "B"
    THEN [q EXCEPT !.either = "A"]
    ELSE [q EXCEPT !.panic = "stream exists"]

\* ReadPacket::new: the stream is taken and the future owns the streamless
\* value.
ReadPacket_new(q) == [take_stream(q) EXCEPT !.reading = TRUE]

\* The head of ReadPacket::poll, r being what the poll of the stream
\* returned: try_ready! leaves with the stream outside the value (NotReady:
\* the future stays; Err: the future is over and the stream is lost with
\* it), otherwise the stream is returned before the packet is looked at.
Returned(q, r) ==
    IF r.res = "NotReady" THEN q
    ELSE IF r.res = "Err" THEN [q EXCEPT !.reading = FALSE]
    ELSE [return_stream(q) EXCEPT !.reading = FALSE]

Got(q, r, o) ==
    [res |-> o.res, kind |-> o.kind, packet |-> o.packet,
     q |-> [Returned(q, r) EXCEPT !.conn = o.conn, !.stream = r.stream,
                                  !.wire = r.endpoint.data,
                                  !.taken = @ + Len(r.item)]]

read_with(q, r) == Got(q, r, ReadPacket_poll(q.conn, r))

\* The poll of the ReadPacket of q.
read_from(q) == read_with(q, Stream_poll(q.stream, Socket(q)))

\* ConnectionLike::read_packet, polled: ReadPacket::new when the future
\* that waits for the packet reaches the read, ReadPacket::poll then and at
\* every later poll until it is ready.
read_packet(q) == read_from(IF q.reading THEN q ELSE ReadPacket_new(q))

\* The future fails and drops the connection.
Fails(q, kind) ==
    [q EXCEPT !.state = "failed", !.stage = "none", !.result = "none", !.columns = 0,
              !.out = [res |-> "Err", kind |-> kind, row |-> <<>>]]

\* The future resolves to the QueryResult (and to row, for get_row).
ResolvedResult(q, row) ==
    [q EXCEPT !.state = "result", !.stage = "none",
              !.out = [res |-> "Ready", kind |-> "none", row |-> row]]

\* The future resolves to the connection: into_inner.
ResolvedConn(q) ==
    [q EXCEPT !.state = "conn", !.stage = "none", !.result = "none", !.columns = 0,
              !.out = [res |-> "Ready", kind |-> "none", row |-> <<>>]]

\* QueryResult::into_empty
into_empty(q) == [q EXCEPT !.pending = FALSE, !.result = "Empty", !.columns = 0]

\* QueryResult::is_empty
is_empty(q) == q.result = "Empty"

\* Protocol::read_result_set_row against the columns of the result.
Row(q, p) == [columns |-> q.columns, val |-> p.val]

RECURSIVE Drive(_)

\* get_row_raw resolved to (q, None), or read_result_set to q: the loop of
\* drop_result continues, every other future resolves; the and_then of
\* an ..._and_drop passes the QueryResult to drop_result.
AtBoundary(q) ==
    IF q.op = "drop_result"
    THEN Drive([q EXCEPT !.stage = "loop"])
    ELSE IF q.and_drop
    THEN Drive([q EXCEPT !.op = "drop_result", !.stage = "loop"])
    ELSE ResolvedResult(q, <<>>)

\* ForEach::poll that does not call fun: the fault C19_OneSet excludes.
WithPacket_unapplied(q, p) ==
    IF q.op = "drop_result"
    THEN Drive([q EXCEPT !.stage = "loop"])
    ELSE IF q.op = "get_row"
    THEN ResolvedResult(q, <<Row(q, p)>>)
    ELSE Drive([q EXCEPT !.stage = "pull"])

\* get_row_raw resolved to (q, Some(p)): get_row resolves to the row,
\* ForEach::poll calls fun and get_row again, drop_result continues.
WithPacket(q, p) ==
    IF q.op = "drop_result"
    THEN Drive([q EXCEPT !.stage = "loop"])
    ELSE IF q.op = "get_row"
    THEN ResolvedResult(q, <<Row(q, p)>>)
    ELSE Drive([q EXCEPT !.acc = Append(@, Row(q, p)), !.stage = "pull"])

\* The closure of get_row_raw that keeps the result on a terminator whose
\* status has SERVER_MORE_RESULTS_EXISTS, as if it were a row: the fault
\* C18_RowPull excludes.
AfterRow_no_advance(q, o) ==
    IF o.res = "NotReady" THEN o.q
    ELSE IF o.res = "Err" THEN Fails(o.q, o.kind)
    ELSE IF is_last_result_set_packet("Text", o.packet[1]) /\ ~o.q.conn.more
    THEN AtBoundary(into_empty(o.q))
    ELSE WithPacket(o.q, o.packet[1])

\* The closure of get_row_raw, o being what its read_packet returned.
AfterRow(q, o) ==
    IF o.res = "NotReady" THEN o.q
    ELSE IF o.res = "Err" THEN Fails(o.q, o.kind)
    ELSE IF is_last_result_set_packet("Text", o.packet[1])
    THEN IF o.q.conn.more
         THEN Drive([o.q EXCEPT !.stage = "header"])
         ELSE AtBoundary(into_empty(o.q))
    ELSE WithPacket(o.q, o.packet[1])

\* read_result_set: an OK packet is a result without rows
\* (QueryResult::new(conn, None)) and no result is pending; any other packet
\* begins a result set, whose columns become the pending result.
AfterHeader(q, o) ==
    IF o.res = "NotReady" THEN o.q
    ELSE IF o.res = "Err" THEN Fails(o.q, o.kind)
    ELSE IF o.packet[1].type = "Ok"
    THEN AtBoundary([o.q EXCEPT !.result = "Empty", !.columns = 0, !.pending = FALSE])
    ELSE AtBoundary([o.q EXCEPT !.result = "WithRows", !.columns = o.packet[1].val,
                                !.pending = TRUE])

\* Queryable::ping: .and_then(read_packet).map(|(this, _)| this)
AfterResponse(q, o) ==
    IF o.res = "NotReady" THEN o.q
    ELSE IF o.res = "Err" THEN Fails(o.q, o.kind)
    ELSE ResolvedConn(o.q)

\* One poll of the pending future, from the future it waits on: the loop of
\* drop_result (loop), get_row_raw (pull), its ReadPacket (row),
\* read_result_set (header), the ReadPacket of ping (response).
Drive(q) ==
    CASE q.stage = "loop" ->
             IF is_empty(q) THEN ResolvedConn(q) ELSE Drive([q EXCEPT !.stage = "pull"])
      [] q.stage = "pull" ->
             IF is_empty(q) THEN AtBoundary(q) ELSE Drive([q EXCEPT !.stage = "row"])
      [] q.stage = "row" -> AfterRow(q, read_packet(q))
      [] q.stage = "header" -> AfterHeader(q, read_packet(q))
      [] q.stage = "response" -> AfterResponse(q, read_packet(q))

\* What the server has sent or will send that no future took yet.
Rest(q) == SubSeq(q.script, q.taken + 1, Len(q.script))

\* write_command_data that writes at the seq_id the connection has: the
\* fault C15_CommandResetsSeqId excludes.
write_command_data_no_reset(q, code) ==
    [q EXCEPT !.conn.seq_id = wrapping_add(q.conn.seq_id, 1),
              !.cmd = <<[code |-> code, seq |-> q.conn.seq_id, was |-> q.conn.seq_id]>>]

\* ConnectionLike::write_command_data: seq_id is reset to 0, the command
\* packet is written with it, and seq_id is one past it.
write_command_data(q, code) ==
    [q EXCEPT !.conn.seq_id = wrapping_add(0, 1),
              !.cmd = <<[code |-> code, seq |-> 0, was |-> q.conn.seq_id]>>]

\* The future of a command: the command is written and the future waits on
\* stage; the server answers with response.
Command(q, op, stage, response) ==
    qr' = [q EXCEPT !.state = "future", !.op = op, !.stage = stage, !.acc = <<>>,
                    !.and_drop = FALSE,
                    !.script = Rest(qr) \o response, !.taken = 0,
                    !.from = [taken |-> 0, result |-> "none", columns |-> 0],
                    !.out = [res |-> "none", kind |-> "none", row |-> <<>>]]

\* Queryable::ping
Ping ==
    /\ qr.state = "conn"
    /\ \E response \in PingResponses :
           Command(write_command_data(qr, "COM_PING"), "ping", "response", response)
    /\ UNCHANGED <<PoolVars, rp, stmt, new_conn, url, connecting>>

\* Queryable::query
Query ==
    /\ qr.state = "conn"
    /\ \E response \in QueryResponses :
           Command(write_command_data(qr, "COM_QUERY"), "query", "header", response)
    /\ UNCHANGED <<PoolVars, rp, stmt, new_conn, url, connecting>>

\* Queryable::disconnect
Quit ==
    /\ qr.state = "conn"
    /\ qr' = [write_command_data(qr, "COM_QUIT") EXCEPT
                  !.state = "closed", !.op = "disconnect",
                  !.out = [res |-> "Ready", kind |-> "none", row |-> <<>>]]
    /\ UNCHANGED <<PoolVars, rp, stmt, new_conn, url, connecting>>

\* The QueryResult with the future op pending on stage.
Started(op, stage, and_drop) ==
    [qr EXCEPT !.state = "future", !.op = op, !.stage = stage, !.acc = <<>>,
               !.cmd = <<>>, !.and_drop = and_drop,
               !.from = [taken |-> qr.taken, result |-> qr.result,
                         columns |-> qr.columns],
               !.out = [res |-> "none", kind |-> "none", row |-> <<>>]]

\* An operation of the QueryResult begins: the future op waits on stage.
Begin(op, stage) == qr' = Started(op, stage, FALSE)

\* QueryResult::get_row
GetRow ==
    /\ qr.state = "result"
    /\ Begin("get_row", "pull")
    /\ UNCHANGED <<PoolVars, rp, stmt, new_conn, url, connecting>>

\* The futures that consume the rows of a result set.
Consumers == {"for_each", "map", "reduce", "collect"}

\* QueryResult::for_each, map, reduce and collect (reduce into a Vec): on
\* an empty result a future that is ready, else ForEach, Map or Reduce, each
\* over get_row.
Consume(op) ==
    /\ qr.state = "result"
    /\ IF is_empty(qr)
       THEN qr' = [qr EXCEPT !.op = op, !.acc = <<>>, !.cmd = <<>>,
                             !.and_drop = FALSE,
                             !.from = [taken |-> qr.taken, result |-> qr.result,
                                       columns |-> qr.columns],
                             !.out = [res |-> "Ready", kind |-> "none", row |-> <<>>]]
       ELSE Begin(op, "pull")
    /\ UNCHANGED <<PoolVars, rp, stmt, new_conn, url, connecting>>

\* QueryResult::collect_and_drop, for_each_and_drop, map_and_drop and
\* reduce_and_drop: the consumer, and_then drop_result (at once on an empty
\* result, where the consumer is a future that is ready).
ConsumeAndDrop(op) ==
    /\ qr.state = "result"
    /\ qr' = IF is_empty(qr)
             THEN Started("drop_result", "loop", TRUE)
             ELSE Started(op, "pull", TRUE)
    /\ UNCHANGED <<PoolVars, rp, stmt, new_conn, url, connecting>>

\* QueryResult::drop_result
DropResult ==
    /\ qr.state = "result"
    /\ Begin("drop_result", "loop")
    /\ UNCHANGED <<PoolVars, rp, stmt, new_conn, url, connecting>>

\* The packets that arrived so far.
Arrived(q) == q.taken + Len(q.stream.buf)

\* The task polls the pending future after n more packets arrived.
PollResult(n) ==
    /\ qr.state = "future"
    /\ n <= Len(qr.script) - Arrived(qr)
    /\ qr' = Drive([qr EXCEPT !.wire = SubSeq(qr.script, Arrived(qr) + 1, Arrived(qr) + n)])
    /\ UNCHANGED <<PoolVars, rp, stmt, new_conn, url, connecting>>

\* The packets of the longest response.
LongestResponse == MaxSets * (MaxRows + 2)

ResultInit ==
    /\ PoolAside
    /\ rp = NoRead
    /\ qr = NewQuery
    /\ NoCommands

ResultNext ==
    \/ Ping
    \/ Query
    \/ Quit
    \/ GetRow
    \/ \E op \in Consumers : Consume(op)
    \/ \E op \in Consumers : ConsumeAndDrop(op)
    \/ DropResult
    \/ \E n \in 0..LongestResponse : PollResult(n)

ResultSpec == ResultInit /\ [][ResultNext]_vars

\* ------------------------------------------------------------------ statements

MaxTokens == 2

MaxPrepares == 3

\* The SQL handed to prepare, as the tokens the rewrite tells apart: text
\* (t, and c, which selects a column) and named placeholders.
Names == {"a", "b"}

Tokens == [kind : {"text"}, name : {"t", "c"}] \cup [kind : {"named"}, name : Names]

Queries == UNION {[1..n -> Tokens] : n \in 1..MaxTokens}

\* The names of the placeholders, in the order of their first occurrences.
RECURSIVE first_occurrences(_)
first_occurrences(text) ==
    IF text = <<>> THEN <<>>
    ELSE LET before == first_occurrences(SubSeq(text, 1, Len(text) - 1))
             last == text[Len(text)]
         IN  IF last.kind = "named" /\ last.name \notin Range(before)
             THEN Append(before, last.name)
             ELSE before

\* parse_named_params: every named placeholder becomes ?, named_params is
\* None when the text has none.
parse_named_params(text) ==
    [named_params |-> IF first_occurrences(text) = <<>> THEN <<>>
                      ELSE <<first_occurrences(text)>>,
     query |-> [i \in 1..Len(text) |->
                   IF text[i].kind = "named"
                   THEN [kind |-> "positional", name |-> "?"]
                   ELSE text[i]]]

\* What the server makes of a statement: a parameter for each ?, a column
\* for each c.
Described(query) ==
    [num_params |-> Cardinality({i \in 1..Len(query) : query[i].kind = "positional"}),
     num_columns |-> Cardinality({i \in 1..Len(query) : query[i].name = "c"})]

Definitions(kind, n) == [i \in 1..n |-> Tag("Data", FALSE, [kind |-> kind, index |-> i])]

Terminated(defs) == IF defs = <<>> THEN <<>> ELSE defs \o <<Tag("Eof", FALSE, 0)>>

\* What the server sends in response to COM_STMT_PREPARE: an ERR packet, or
\* the packet that carries the id it assigned and the two counts, then the
\* definitions of the parameters and of the columns, each list ended by an
\* EOF packet unless it is empty.
PrepareResponses(query, id) ==
    {Numbered(<<Tag("Err", FALSE, MaxVal)>>),
     Numbered(<<Tag("Data", FALSE,
                    [statement_id |-> id,
                     num_params |-> Described(query).num_params,
                     num_columns |-> Described(query).num_columns])>>
              \o Terminated(Definitions("param", Described(query).num_params))
              \o Terminated(Definitions("column", Described(query).num_columns)))}

\* InnerStmt::new
InnerStmt_new(packet, named_params) ==
    [statement_id |-> packet.val.statement_id, num_params |-> packet.val.num_params,
     num_columns |-> packet.val.num_columns, params |-> <<>>, columns |-> <<>>,
     named_params |-> named_params]

\* The statement cache of the connection that qr holds, the Prepare on it
\* (step and the fields of the struct; found: the clone that CachedStatement
\* carries), the id the server assigns next, what a future resolved to (out)
\* and the prepares that resolved (prepared: the text given, the key of the
\* cache, the InnerStmt of the Stmt, and whether a command was written);
\* batch is the BatchExec (given: params_vec as it was given) and did what
\* it did.
NewStmt ==
    [stmt_cache |-> <<>>, step |-> "none", named_params |-> <<>>, query |-> <<>>,
     params |-> <<>>, columns |-> <<>>, capacity |-> [params |-> 0, columns |-> 0],
     stmt |-> <<>>, found |-> <<>>, text |-> <<>>, next_id |-> 1, out |-> <<>>,
     prepared |-> <<>>,
     batch |-> [step |-> "none", params_vec |-> <<>>, current |-> 0, given |-> <<>>],
     did |-> <<>>]

\* The connection and the statements, together.
On(q, s) == [q |-> q, s |-> s]

\* The Prepare fails and drops the connection.
PrepareFails(q, s, kind) ==
    On([Fails(q, kind) EXCEPT !.op = "none"], [s EXCEPT !.step = "none", !.out = <<>>])

\* new_stmt, and the Prepare resolved to the Stmt.
new_stmt(inner_stmt, q, s) ==
    On([q EXCEPT !.state = "stmt", !.op = "none", !.stage = "none",
                 !.out = [res |-> "Ready", kind |-> "none", row |-> <<>>]],
       [s EXCEPT !.step = "none", !.out = <<inner_stmt>>,
                 !.prepared = Append(@, [text |-> s.text, query |-> s.query,
                                         stmt |-> inner_stmt,
                                         wrote |-> q.cmd # <<>>])])

\* The entry of query in the cache becomes inner_stmt.
insert(stmt_cache, query, inner_stmt) ==
    [k \in DOMAIN stmt_cache \cup {query} |->
        IF k = query THEN inner_stmt ELSE stmt_cache[k]]

RECURSIVE Prepare_poll(_, _)

\* Out::ReadCommandResponse, o being what the ReadPacket returned.
ReadCommandResponse(s, o) ==
    IF o.res = "NotReady" THEN On(o.q, s)
    ELSE IF o.res = "Err" THEN PrepareFails(o.q, s, o.kind)
    ELSE IF o.packet[1].val.num_params > 0 \/ o.packet[1].val.num_columns > 0
    THEN Prepare_poll(o.q,
             [s EXCEPT !.named_params = <<>>, !.params = <<>>, !.columns = <<>>,
                       !.capacity = [params |-> o.packet[1].val.num_params,
                                     columns |-> o.packet[1].val.num_columns],
                       !.stmt = <<InnerStmt_new(o.packet[1], s.named_params)>>,
                       !.step = "ReadParamOrColumn"])
    ELSE new_stmt(InnerStmt_new(o.packet[1], s.named_params), o.q,
                  [s EXCEPT !.named_params = <<>>])

\* Out::ReadParamOrColumn without the test for the EOF packet, so that the
\* terminator of the parameters is kept as a column: the fault
\* C32_PrepareReads excludes.
ReadParamOrColumn_keep_eof(s, o) ==
    IF o.res = "NotReady" THEN On(o.q, s)
    ELSE IF o.res = "Err" THEN PrepareFails(o.q, s, o.kind)
    ELSE IF Len(s.params) < s.capacity.params
    THEN Prepare_poll(o.q, [s EXCEPT !.params = Append(@, o.packet[1].val)])
    ELSE IF Len(s.columns) < s.capacity.columns
    THEN Prepare_poll(o.q, [s EXCEPT !.columns = Append(@, o.packet[1].val)])
    ELSE new_stmt([s.stmt[1] EXCEPT !.params = <<s.params>>, !.columns = <<s.columns>>],
                  o.q,
                  [s EXCEPT !.stmt = <<>>, !.params = <<>>, !.columns = <<>>,
                            !.stmt_cache =
                                insert(@, s.query,
                                       [s.stmt[1] EXCEPT !.params = <<s.params>>,
                                                         !.columns = <<s.columns>>])])

\* Out::ReadParamOrColumn
ReadParamOrColumn(s, o) ==
    IF o.res = "NotReady" THEN On(o.q, s)
    ELSE IF o.res = "Err" THEN PrepareFails(o.q, s, o.kind)
    ELSE IF Len(s.params) < s.capacity.params
    THEN Prepare_poll(o.q, [s EXCEPT !.params = Append(@, o.packet[1].val)])
    ELSE IF Len(s.columns) < s.capacity.columns
    THEN Prepare_poll(o.q,
             IF o.packet[1].type # "Eof"
             THEN [s EXCEPT !.columns = Append(@, o.packet[1].val)]
             ELSE s)
    ELSE new_stmt([s.stmt[1] EXCEPT !.params = <<s.params>>, !.columns = <<s.columns>>],
                  o.q,
                  [s EXCEPT !.stmt = <<>>, !.params = <<>>, !.columns = <<>>,
                            !.stmt_cache =
                                insert(@, s.query,
                                       [s.stmt[1] EXCEPT !.params = <<s.params>>,
                                                         !.columns = <<s.columns>>])])

\* Prepare::poll
Prepare_poll(q, s) ==
    CASE s.step = "CachedStatement" -> new_stmt(s.found[1], q, [s EXCEPT !.found = <<>>])
      [] s.step = "WriteCommand" ->
             Prepare_poll(q, [s EXCEPT !.step = "ReadCommandResponse"])
      [] s.step = "ReadCommandResponse" -> ReadCommandResponse(s, read_packet(q))
      [] s.step = "ReadParamOrColumn" -> ReadParamOrColumn(s, read_packet(q))

\* The fields of a Prepare of text that begins at step.
Prepared(s, text, step) ==
    [s EXCEPT !.step = step, !.named_params = parse_named_params(text).named_params,
              !.query = parse_named_params(text).query, !.params = <<>>,
              !.columns = <<>>, !.stmt = <<>>, !.text = text, !.out = <<>>,
              !.batch = [step |-> "none", params_vec |-> <<>>, current |-> 0, given |-> <<>>],
              !.did = <<>>]

\* The connection with a future pending on it, after the command that was
\* written (if any) and with the response the server will give.
Busy(q, op, response) ==
    [q EXCEPT !.state = "future", !.op = op, !.stage = "none", !.acc = <<>>,
              !.script = Rest(qr) \o response, !.taken = 0,
              !.from = [taken |-> 0, result |-> "none", columns |-> 0],
              !.out = [res |-> "none", kind |-> "none", row |-> <<>>]]

\* prepare::new on a statement that the cache has: no command is written.
CachedStatement(s, text) ==
    On(Busy([qr EXCEPT !.cmd = <<>>], "prepare", <<>>),
       [Prepared(s, text, "CachedStatement") EXCEPT
            !.found = <<[s.stmt_cache[parse_named_params(text).query] EXCEPT
                             !.named_params = parse_named_params(text).named_params]>>])

\* prepare::new on any other statement: COM_STMT_PREPARE is written, and
\* the server assigns an id unless it refuses the statement.
WriteCommand(s, text, response) ==
    On(Busy(write_command_data(qr, "COM_STMT_PREPARE"), "prepare", response),
       [Prepared(s, text, "WriteCommand") EXCEPT
            !.next_id = IF response[1].type = "Err" THEN @ ELSE @ + 1])

\* prepare::new that looks the text it was given up in the cache, not the
\* rewritten one: the fault C24_CacheKey excludes.
prepare_new_by_text(s, text) ==
    IF text \in DOMAIN s.stmt_cache
    THEN {CachedStatement(s, text)}
    ELSE {WriteCommand(s, text, response) :
              response \in PrepareResponses(parse_named_params(text).query, s.next_id)}

\* prepare::new
prepare_new(s, text) ==
    IF parse_named_params(text).query \in DOMAIN s.stmt_cache
    THEN {CachedStatement(s, text)}
    ELSE {WriteCommand(s, text, response) :
              response \in PrepareResponses(parse_named_params(text).query, s.next_id)}

\* Conn::prepare
Prepare(text) ==
    /\ qr.state = "conn"
    /\ Len(stmt.prepared) < MaxPrepares
    /\ \E began \in prepare_new(stmt, text) :
           /\ qr' = began.q
           /\ stmt' = began.s
    /\ UNCHANGED <<PoolVars, rp, new_conn, url, connecting>>

\* The task polls the Prepare after n more packets arrived.
PollPrepare(n) ==
    /\ qr.state = "future"
    /\ stmt.batch.step = "none"
    /\ n <= Len(qr.script) - Arrived(qr)
    /\ LET polled == Prepare_poll([qr EXCEPT !.wire = SubSeq(qr.script, Arrived(qr) + 1,
                                                             Arrived(qr) + n)], stmt)
       IN  /\ qr' = polled.q
           /\ stmt' = polled.s
    /\ UNCHANGED <<PoolVars, rp, new_conn, url, connecting>>

\* Stmt::unwrap
Unwrap ==
    /\ qr.state = "stmt"
    /\ qr' = [qr EXCEPT !.state = "conn"]
    /\ stmt' = [stmt EXCEPT !.out = <<>>]
    /\ UNCHANGED <<PoolVars, rp, new_conn, url, connecting>>

MaxBatch == 2

\* The parameter sets a batch is given.
ParamSets == {"p", "q"}

ParamsVecs == UNION {[1..n -> ParamSets] : n \in 0..MaxBatch}

\* The statements of one token.
BatchQueries == [1..1 -> Tokens]

\* The rows of the result of one execution.
ExecutedRows(n) == [i \in 1..n |-> Tag("Data", FALSE, MaxVal)]

\* What the server sends in response to COM_STMT_EXECUTE: an OK or an ERR
\* packet, or a result set that ends with an EOF or an ERR packet, or (a
\* procedure call) a result set whose EOF has SERVER_MORE_RESULTS_EXISTS and
\* the OK packet of the call.
ExecuteResponses ==
    {Numbered(s) :
        s \in {<<Tag("Ok", FALSE, MaxVal)>>, <<Tag("Err", FALSE, MaxVal)>>,
               <<Tag("Data", FALSE, 1), Tag("Eof", TRUE, 0), Tag("Ok", FALSE, MaxVal)>>}
              \cup {<<Tag("Data", FALSE, 1)>> \o ExecutedRows(n) \o <<Tag(t, FALSE, 0)>> :
                        n \in 0..MaxRows, t \in {"Eof", "Err"}}}

\* What a BatchExec did so far: the futures it made, each with the packets
\* that were unread on the stream then, and Ready when it resolved.
Did(s, q, op, params) ==
    [s EXCEPT !.did = Append(@, [op |-> op, params |-> params,
                                 unread |-> Len(q.script) - q.taken])]

\* The BatchExec fails and drops the connection.
BatchFails(q, s) == On(q, [s EXCEPT !.batch.step = "none"])

RECURSIVE BatchExec_poll(_, _, _)

\* Stmt::execute: COM_STMT_EXECUTE is written, and the future reads the
\* result set the server answers with.
execute(q, s, params, answer) ==
    On([Busy(write_command_data(q, "COM_STMT_EXECUTE"), "execute", answer) EXCEPT
            !.script = SubSeq(q.script, q.taken + 1, Len(q.script)) \o answer,
            !.stage = "header"],
       [Did(s, q, "execute", <<params>>) EXCEPT
            !.batch.step = "Execute", !.batch.current = @ + 1,
            !.batch.params_vec[s.batch.current + 1] = "Empty"])

\* The arm of Out::Prepare and Out::DropResult that takes the parameter
\* sets from the last to the first: the fault C27_BatchExec excludes.
NextParams_reversed(q, s, answer) ==
    IF s.batch.current < Len(s.batch.params_vec)
    THEN BatchExec_poll(
             execute(q, s, s.batch.params_vec[Len(s.batch.params_vec) - s.batch.current],
                     answer).q,
             execute(q, s, s.batch.params_vec[Len(s.batch.params_vec) - s.batch.current],
                     answer).s,
             answer)
    ELSE On([q EXCEPT !.state = "conn", !.op = "none"],
            [Did(s, q, "Ready", <<>>) EXCEPT !.batch.step = "none",
                                             !.batch.current = @ + 1, !.out = <<>>])

\* Out::Prepare(stmt) | Out::DropResult(stmt): the statement is executed
\* with the parameter set at current, or the BatchExec resolves to the
\* connection when there is none.
NextParams(q, s, answer) ==
    IF s.batch.current < Len(s.batch.params_vec)
    THEN BatchExec_poll(execute(q, s, s.batch.params_vec[s.batch.current + 1], answer).q,
                        execute(q, s, s.batch.params_vec[s.batch.current + 1], answer).s,
                        answer)
    ELSE On([q EXCEPT !.state = "conn", !.op = "none"],
            [Did(s, q, "Ready", <<>>) EXCEPT !.batch.step = "none",
                                             !.batch.current = @ + 1, !.out = <<>>])

\* Out::Execute(query_result): query_result.drop_result()
DropsExecuted(q, s, answer) ==
    BatchExec_poll([q EXCEPT !.state = "future", !.op = "drop_result", !.stage = "loop"],
                   [Did(s, q, "drop_result", <<>>) EXCEPT !.batch.step = "DropResult"],
                   answer)

\* try_ready!(self.either_poll()) and the arm of what it resolved to, o
\* being what the poll of the future of the step returned and answer what
\* the server sends if the statement is executed.
Stepped(o, answer) ==
    IF o.q.state = "future" THEN o
    ELSE IF o.q.state = "failed" THEN BatchFails(o.q, o.s)
    ELSE IF o.s.batch.step = "Execute" THEN DropsExecuted(o.q, o.s, answer)
    ELSE NextParams(o.q, o.s, answer)

\* BatchExec::poll
BatchExec_poll(q, s, answer) ==
    IF s.batch.step = "Prepare"
    THEN Stepped(Prepare_poll(q, s), answer)
    ELSE Stepped(On(Drive(q), s), answer)

\* batch_exec::new
BatchExec(text, params_vec) ==
    /\ qr.state = "conn"
    /\ Len(stmt.prepared) < MaxPrepares - 1
    /\ \E began \in prepare_new(stmt, text) :
           /\ qr' = began.q
           /\ stmt' = [began.s EXCEPT
                           !.batch = [step |-> "Prepare", params_vec |-> params_vec,
                                      current |-> 0, given |-> params_vec],
                           !.did = <<[op |-> "prepare", params |-> <<>>,
                                      unread |-> Len(qr.script) - qr.taken]>>]
    /\ UNCHANGED <<PoolVars, rp, new_conn, url, connecting>>

\* The responses the server may give in a poll that went as o: any if the
\* poll wrote COM_STMT_EXECUTE, none if it wrote nothing.
AnswersTo(o) ==
    IF \E i \in (Len(stmt.did) + 1)..Len(o.s.did) : o.s.did[i].op = "execute"
    THEN ExecuteResponses
    ELSE {<<>>}

\* The connection after n more packets arrived.
Fed(n) == [qr EXCEPT !.wire = SubSeq(qr.script, Arrived(qr) + 1, Arrived(qr) + n)]

\* The task polls the BatchExec after n more packets arrived.
PollBatchExec(n) ==
    /\ qr.state = "future"
    /\ stmt.batch.step # "none"
    /\ n <= Len(qr.script) - Arrived(qr)
    /\ \E answer \in AnswersTo(BatchExec_poll(Fed(n), stmt, <<>>)) :
           LET polled == BatchExec_poll(Fed(n), stmt, answer)
           IN  /\ qr' = polled.q
               /\ stmt' = polled.s
    /\ UNCHANGED <<PoolVars, rp, new_conn, url, connecting>>

\* The packets of the longest response to COM_STMT_PREPARE.
LongestDefinitions == 2 * MaxTokens + 3

StmtInit ==
    /\ PoolAside
    /\ rp = NoRead
    /\ qr = NewQuery
    /\ stmt = NewStmt
    /\ new_conn = NoNewConn
    /\ url = NoUrl
    /\ connecting = NoConnecting

StmtNext ==
    \/ \E text \in Queries : Prepare(text)
    \/ \E n \in 0..LongestDefinitions : PollPrepare(n)
    \/ Unwrap

StmtSpec == StmtInit /\ [][StmtNext]_vars

\* Batches, and prepares before and after them, of the statements of one
\* token.
BatchNext ==
    \/ \E text \in BatchQueries : Prepare(text)
    \/ \E n \in 0..LongestDefinitions : PollPrepare(n)
    \/ Unwrap
    \/ \E text \in BatchQueries, params_vec \in ParamsVecs : BatchExec(text, params_vec)
    \/ \E n \in 0..LongestDefinitions : PollBatchExec(n)

BatchSpec == StmtInit /\ [][BatchNext]_vars

\* ------------------------------------------------------------------ new connections

MaxInit == 2

\* Opts::get_init: the statements to run on a new connection.
Inits == UNION {[1..n -> {"s", "u"}] : n \in 0..MaxInit}

\* The sequence ids the initial handshake may carry.
HandshakeSeqs == {0, 1, U8 - 2, U8 - 1}

\* A packet the server sends, with its sequence id.
Sent(type, seq) == [type |-> type, seq |-> seq, more |-> FALSE, val |-> 0]

\* What the server sends once the k-th future of the bootstrap wrote its
\* command (CollectAll writes none and reads on): the answer, reduced to one
\* packet, or an ERR packet to the future the server refuses (fail_at).
BootstrapAnswer(c, k, type, seq) ==
    IF c.fail_at = k THEN <<Sent("Err", seq)>> ELSE <<Sent(type, seq)>>

\* A NewConn over a stream that is connecting: step, init_len and the
\* options are the struct; conn is the Conn once it is built (seq_id and
\* what a read touches); connecting is the ConnectingStream; script is what
\* the server sent or will send in response to what was written, taken how
\* much of it was read, wire what arrived at this poll; build is how u8 and
\* usize arithmetic overflows; greeting, ack and fail_at are the server;
\* did is what the future did, in order; out what it resolved to.
NewConns ==
    [step : {"ConnectingStream"}, init : Inits, init_len : {0}, conn : {<<>>},
     connecting : {"pending"}, stream : {NewStream}, script : {<<>>}, taken : {0},
     wire : {<<>>}, build : {"debug", "release"},
     greeting : {Sent(t, h) : t \in {"Data", "Err"}, h \in HandshakeSeqs},
     ack : {"Ok", "Err"}, fail_at : 0..(2 + 2 * MaxInit),
     did : {<<>>}, out : {[res |-> "none", kind |-> "none"]}]

\* new_conn::new
new(c) == [c EXCEPT !.init_len = Len(c.init)]

\* What the NewConn did: op, on the statement of index (for Query and
\* CollectAll), with seq (for a write) and with unread packets on the stream.
Does(c, op, index, seq) ==
    [c EXCEPT !.did = Append(@, [op |-> op, index |-> index, seq |-> seq,
                                 unread |-> Len(c.script) - c.taken])]

\* The NewConn fails, or panics.
NewConnFails(c, res, kind) ==
    [c EXCEPT !.step = "none", !.conn = <<>>, !.out = [res |-> res, kind |-> kind]]

\* Ok(Ready(conn))
NewConnReady(c) ==
    [Does(c, "Ready", 0, 0) EXCEPT !.step = "none", !.out = [res |-> "Ready", kind |-> "none"]]

\* What the stream gives at this poll.
StreamFuture_poll(c, then) ==
    Stream_poll(c.stream, [data |-> c.wire, partial |-> FALSE, then |-> then])

\* The NewConn after the poll r of its stream.
Taken(c, r) ==
    [c EXCEPT !.stream = r.stream, !.wire = r.endpoint.data, !.taken = @ + Len(r.item)]

RECURSIVE NewConn_poll(_, _)

\* seq_id + 1 on u8: past 255 it panics in a debug build and wraps in a
\* release build.
Overflows(seq) == seq + 1 >= U8

\* Out::ReadHandshake that writes the response with the sequence id of the
\* handshake: the fault C26_Handshake excludes.
ReadHandshake_same_seq(c, r, then) ==
    IF r.res = "NotReady" THEN Taken(c, r)
    ELSE IF r.res = "Err" THEN NewConnFails(Taken(c, r), "Err", "Io")
    ELSE IF r.item = <<>> THEN NewConnFails(Taken(c, r), "panic", "No handshake!?")
    ELSE IF r.item[1].type = "Err" THEN NewConnFails(Taken(c, r), "Err", "Server")
    ELSE NewConn_poll(
             [Does(Does(Taken(c, r), "ReadHandshake", 0, r.item[1].seq),
                   "WriteHandshake", 0, r.item[1].seq) EXCEPT
                  !.step = "WriteHandshake",
                  !.script = @ \o <<Sent(c.ack, wrapping_add(r.item[1].seq, 2))>>],
             then)

\* Out::ReadHandshake, r being what the stream gave.
ReadHandshake(c, r, then) ==
    IF r.res = "NotReady" THEN Taken(c, r)
    ELSE IF r.res = "Err" THEN NewConnFails(Taken(c, r), "Err", "Io")
    ELSE IF r.item = <<>> THEN NewConnFails(Taken(c, r), "panic", "No handshake!?")
    ELSE IF r.item[1].type = "Err" THEN NewConnFails(Taken(c, r), "Err", "Server")
    ELSE IF Overflows(r.item[1].seq) /\ c.build = "debug"
    THEN NewConnFails(Does(Taken(c, r), "ReadHandshake", 0, r.item[1].seq),
                      "panic", "overflow")
    ELSE NewConn_poll(
             [Does(Does(Taken(c, r), "ReadHandshake", 0, r.item[1].seq),
                   "WriteHandshake", 0, (r.item[1].seq + 1) % U8) EXCEPT
                  !.step = "WriteHandshake",
                  !.script = @ \o <<Sent(c.ack, wrapping_add(r.item[1].seq, 2))>>],
             then)

\* A command of the bootstrap is written (write_command_data) and the k-th
\* future of the bootstrap reads its answer.
Asks(c, step, k, index) ==
    [Does(c, step, index, 0) EXCEPT
         !.step = step, !.conn.seq_id = wrapping_add(0, 1),
         !.script = @ \o BootstrapAnswer(c, k, "Data", 1)]

\* Out::ReadResponse
ReadResponse(c, r, then) ==
    IF r.res = "NotReady" THEN Taken(c, r)
    ELSE IF r.res = "Err" THEN NewConnFails(Taken(c, r), "Err", "Io")
    ELSE IF r.item = <<>> THEN NewConnFails(Taken(c, r), "panic", "No handshake response!?")
    ELSE IF r.item[1].type = "Err" THEN NewConnFails(Taken(c, r), "Err", "Server")
    ELSE NewConn_poll(Asks([Taken(c, r) EXCEPT !.conn = ConnOf(r.item[1].seq)],
                           "ReadMaxAllowedPacket", 1, 0),
                      then)

\* The arms of Out::ReadWaitTimeout and Out::CollectAll with the index
\* init_len - 1, which runs the statements from the last to the first: the
\* fault C25_Bootstrap excludes.
NextInit_reversed(c, then) ==
    IF c.init_len > 0
    THEN NewConn_poll(
             [Asks(c, "Query", 3 + 2 * (Len(c.init) - c.init_len), c.init_len - 1) EXCEPT
                  !.init_len = @ - 1],
             then)
    ELSE NewConnReady(c)

\* The arms of Out::ReadWaitTimeout and Out::CollectAll: the statement at
\* len - init_len is run, or the NewConn resolves when there is none.
NextInit(c, then) ==
    IF c.init_len > Len(c.init)
    THEN IF c.build = "debug"
         THEN NewConnFails(c, "panic", "overflow")
         ELSE NewConnReady(c)
    ELSE IF Len(c.init) - c.init_len < Len(c.init)
    THEN NewConn_poll(
             [Asks(c, "Query", 3 + 2 * (Len(c.init) - c.init_len),
                   Len(c.init) - c.init_len) EXCEPT !.init_len = @ - 1],
             then)
    ELSE NewConnReady(c)

\* The arms of the futures of the bootstrap, o being what the read of the
\* future returned: Out::ReadMaxAllowedPacket, Out::Query, and NextInit.
Resolved(c, o, then) ==
    IF o.res = "NotReady" THEN c
    ELSE IF o.res = "Err" THEN NewConnFails(c, "Err", o.kind)
    ELSE IF c.step = "ReadMaxAllowedPacket"
    THEN NewConn_poll(Asks([c EXCEPT !.conn = o.conn], "ReadWaitTimeout", 2, 0), then)
    ELSE IF c.step = "Query"
    THEN NewConn_poll(
             [Does([c EXCEPT !.conn = o.conn], "CollectAll",
                   Len(c.init) - c.init_len - 1, 0) EXCEPT
                  !.step = "CollectAll",
                  !.script = @ \o BootstrapAnswer(
                                      c, 4 + 2 * (Len(c.init) - c.init_len - 1), "Eof", 2)],
             then)
    ELSE NextInit([c EXCEPT !.conn = o.conn], then)

\* The poll of a future of the bootstrap, r being what its stream gave.
Bootstrapped(c, r, then) == Resolved(Taken(c, r), ReadPacket_poll(c.conn, r), then)

\* NewConn::poll
NewConn_poll(c, then) ==
    CASE c.step = "ConnectingStream" ->
             IF c.connecting = "pending" THEN c
             ELSE IF c.connecting = "refused" THEN NewConnFails(c, "Err", "Io")
             ELSE NewConn_poll([c EXCEPT !.step = "ReadHandshake"], then)
      [] c.step = "ReadHandshake" -> ReadHandshake(c, StreamFuture_poll(c, then), then)
      [] c.step = "WriteHandshake" -> NewConn_poll([c EXCEPT !.step = "ReadResponse"], then)
      [] c.step = "ReadResponse" -> ReadResponse(c, StreamFuture_poll(c, then), then)
      [] OTHER -> Bootstrapped(c, StreamFuture_poll(c, then), then)

\* The ConnectingStream connects, and the server sends its greeting, or
\* fails to connect.
Connect(outcome) ==
    /\ new_conn.step = "ConnectingStream"
    /\ new_conn.connecting = "pending"
    /\ new_conn' = [new_conn EXCEPT
                        !.connecting = outcome,
                        !.script = IF outcome = "connected" THEN <<new_conn.greeting>>
                                   ELSE <<>>]
    /\ UNCHANGED <<PoolVars, rp, qr, stmt, url, connecting>>

\* The packets that arrived so far.
Came(c) == c.taken + Len(c.stream.buf)

\* The task polls the NewConn after n more packets arrived; then is what
\* the socket returns after them.
PollNewConn(n, then) ==
    /\ new_conn.step \notin {"none"}
    /\ n <= Len(new_conn.script) - Came(new_conn)
    /\ new_conn' = NewConn_poll([new_conn EXCEPT
                                     !.wire = SubSeq(new_conn.script, Came(new_conn) + 1,
                                                     Came(new_conn) + n)], then)
    /\ UNCHANGED <<PoolVars, rp, qr, stmt, url, connecting>>

NewConnInit ==
    /\ PoolAside
    /\ rp = NoRead
    /\ qr = NoQuery
    /\ stmt = NoStmt
    /\ new_conn \in {new(c) : c \in NewConns}
    /\ url = NoUrl
    /\ connecting = NoConnecting

NewConnNext ==
    \/ \E outcome \in {"connected", "refused"} : Connect(outcome)
    \/ \E n \in 0..1, then \in {"WouldBlock", "Eof", "Error"} : PollNewConn(n, then)

NewConnSpec == NewConnInit /\ [][NewConnNext]_vars

\* ------------------------------------------------------------------ options

MaxPairs == 2

MaxDigits == 3

\* The characters of the value of a query parameter.
Characters == {"0", "1", "x"}

Values == UNION {[1..n -> Characters] : n \in 0..MaxDigits}

\* Url::query_pairs
QueryPairs ==
    UNION {[1..n -> [key : {"pool_min", "pool_max", "prefer_socket"}, value : Values]] :
               n \in 0..MaxPairs}

\* What Url::parse gives of the URL strings that parse.
Urls == [scheme : {"mysql", "http"}, has_host : BOOLEAN, query_pairs : QueryPairs]

\* Opts::default (the fields of the pool)
Opts_default == [pool_min |-> 10, pool_max |-> 100]

\* The number that a string of decimal digits denotes.
RECURSIVE Decimal(_)
Decimal(value) ==
    IF value = <<>> THEN 0
    ELSE 10 * Decimal(SubSeq(value, 1, Len(value) - 1))
             + (IF value[Len(value)] = "1" THEN 1 ELSE 0)

\* usize::from_str: <<n>>, or <<>> on a string that is empty or has a
\* character that is no digit (none of the values here overflows usize).
usize_from_str(value) ==
    IF value = <<>> \/ \E i \in 1..Len(value) : value[i] \notin {"0", "1"}
    THEN <<>>
    ELSE <<Decimal(value)>>

Err(kind, args) == [res |-> "Err", kind |-> kind, args |-> args]

\* from_url_basic
from_url_basic(u) ==
    IF u.scheme # "mysql" THEN Err("UrlUnsupportedScheme", <<u.scheme>>)
    ELSE IF ~u.has_host THEN Err("UrlInvalid", <<>>)
    ELSE [res |-> "Ok", opts |-> Opts_default, query_pairs |-> u.query_pairs]

\* The loop of from_url over the pairs from i on.
RECURSIVE ForPairs(_, _, _)
ForPairs(o, pairs, i) ==
    IF i > Len(pairs) THEN [res |-> "Ok", opts |-> o]
    ELSE IF pairs[i].key \notin {"pool_min", "pool_max"}
    THEN Err("UrlUnknownParameter", <<pairs[i].key>>)
    ELSE IF usize_from_str(pairs[i].value) = <<>>
    THEN Err("UrlInvalidParamValue", <<pairs[i].key, pairs[i].value>>)
    ELSE ForPairs([o EXCEPT ![pairs[i].key] = usize_from_str(pairs[i].value)[1]],
                  pairs, i + 1)

\* from_url without the comparison of pool_min and pool_max: the fault
\* C28_PoolConstraints excludes.
from_url_unchecked(u) ==
    IF from_url_basic(u).res = "Err" THEN from_url_basic(u)
    ELSE ForPairs(from_url_basic(u).opts, from_url_basic(u).query_pairs, 1)

\* The end of from_url, r being what the loop gave.
Constrained(r) ==
    IF r.res = "Err" THEN r
    ELSE IF r.opts.pool_min > r.opts.pool_max
    THEN Err("InvalidPoolConstraints", <<r.opts.pool_min, r.opts.pool_max>>)
    ELSE r

\* from_url
from_url(u) ==
    IF from_url_basic(u).res = "Err" THEN from_url_basic(u)
    ELSE Constrained(ForPairs(from_url_basic(u).opts, from_url_basic(u).query_pairs, 1))

\* Opts::from_url
FromUrl ==
    /\ url.out.res = "none"
    /\ url' = [url EXCEPT !.out = from_url(url.given)]
    /\ UNCHANGED <<PoolVars, rp, qr, stmt, new_conn, connecting>>

UrlInit ==
    /\ PoolAside
    /\ rp = NoRead
    /\ qr = NoQuery
    /\ stmt = NoStmt
    /\ new_conn = NoNewConn
    /\ connecting = NoConnecting
    /\ url \in [given : Urls, out : {[res |-> "none"]}]

UrlNext == FromUrl

UrlSpec == UrlInit /\ [][UrlNext]_vars

\* ------------------------------------------------------------------ connecting

\* Addresses a host name resolves to.
MaxAddrs == 4

\* What addr.to_socket_addrs() returns: Err, or Ok with the addresses (none
\* included), numbered in the order of the iterator.
Resolutions ==
    {[ok |-> FALSE, addrs |-> <<>>]}
        \cup {[ok |-> TRUE, addrs |-> [i \in 1..n |-> i]] : n \in 0..MaxAddrs}

\* for address in addresses { streams.push(TcpStream::connect(&address)) }
RECURSIVE Connects(_, _)
Connects(addresses, streams) ==
    IF addresses = <<>>
    THEN streams
    ELSE Connects(Tail(addresses), Append(streams, [connect |-> Head(addresses)]))

\* io::futures::connecting_stream::new. inner is the Vec of SelectOk,
\* connects the calls of TcpStream::connect made, polled the polls of the
\* ConnectFutures in the last poll and last what they had to return, failed
\* the addresses whose connect returned Err, given what the name resolved to.
ConnectingStream_new(r) ==
    LET streams == Connects(r.addrs, <<>>)
        c == [step |-> "Fail", inner |-> <<>>, connects |-> <<>>, error |-> "resolve",
              polled |-> <<>>, failed |-> <<>>, out |-> [res |-> "none"],
              last |-> [a \in 1..MaxAddrs |-> "NotReady"], given |-> r]
    IN IF r.ok
       THEN IF Len(streams) > 0
            THEN [c EXCEPT !.step = "WaitForStream", !.inner = streams,
                           !.connects = streams, !.error = "none"]
            ELSE [c EXCEPT !.error = "InvalidInput"]
       ELSE c

\* What the poll of each ConnectFuture returns during one poll of the
\* ConnectingStream.
ConnectResults == [1..MaxAddrs -> {"NotReady", "Ready", "Err"}]

\* The first future of inner whose poll does not return NotReady (0: none):
\* inner.iter_mut().enumerate().filter_map(...).next()
RECURSIVE FirstDone(_, _, _)
FirstDone(futures, results, i) ==
    IF i > Len(futures) THEN 0
    ELSE IF results[futures[i].connect] # "NotReady" THEN i
    ELSE FirstDone(futures, results, i + 1)

\* Vec::remove(idx)
Remove(s, i) == SubSeq(s, 1, i - 1) \o SubSeq(s, i + 1, Len(s))

\* The polls one turn of the loop of SelectOk::poll makes: the futures up to
\* the first that is done, or all of them.
Turn(futures, results, i) ==
    [k \in 1..(IF i = 0 THEN Len(futures) ELSE i) |->
        [connect |-> futures[k].connect, res |-> results[futures[k].connect]]]

RECURSIVE SelectOk_poll(_, _)

\* SelectOk::poll that returns the first error it meets: the fault
\* C35_Race excludes.
SelectOk_poll_first_error(c, results) ==
    LET i == FirstDone(c.inner, results, 1)
        p == [c EXCEPT !.polled = @ \o Turn(c.inner, results, i)]
    IN IF i = 0
       THEN [p EXCEPT !.out = [res |-> "NotReady"]]
       ELSE IF results[c.inner[i].connect] = "Ready"
       THEN [p EXCEPT !.inner = <<>>,
                      !.out = [res |-> "Ready", stream |-> c.inner[i].connect]]
       ELSE [p EXCEPT !.inner = Remove(@, i),
                      !.failed = Append(@, c.inner[i].connect),
                      !.out = [res |-> "Err", error |-> c.inner[i].connect]]

\* SelectOk::poll of futures 0.1, the future select_ok(streams) makes: the
\* first future that is done is removed; Ok ends the poll with its item and
\* drops the rest, Err ends it when no future is left, and the loop goes
\* round while futures are left.
SelectOk_poll(c, results) ==
    LET i == FirstDone(c.inner, results, 1)
        p == [c EXCEPT !.polled = @ \o Turn(c.inner, results, i)]
    IN IF i = 0
       THEN [p EXCEPT !.out = [res |-> "NotReady"]]
       ELSE IF results[c.inner[i].connect] = "Ready"
       THEN [p EXCEPT !.inner = <<>>,
                      !.out = [res |-> "Ready", stream |-> c.inner[i].connect]]
       ELSE IF Remove(c.inner, i) = <<>>
       THEN [p EXCEPT !.inner = <<>>,
                      !.failed = Append(@, c.inner[i].connect),
                      !.out = [res |-> "Err", error |-> c.inner[i].connect]]
       ELSE SelectOk_poll([p EXCEPT !.inner = Remove(@, i),
                                    !.failed = Append(@, c.inner[i].connect)],
                          results)

\* ConnectingStream::poll: either_poll polls the future of the step; Failed
\* returns its error, and the stream SelectOk yields is framed.
ConnectingStream_poll(c, results) ==
    IF c.step = "Fail"
    THEN [c EXCEPT !.out = [res |-> "Err", error |-> c.error]]
    ELSE SelectOk_poll([c EXCEPT !.polled = <<>>, !.last = results], results)

\* connecting_stream::new(addr)
NewConnecting(r) ==
    /\ connecting = NoConnecting
    /\ connecting' = ConnectingStream_new(r)
    /\ UNCHANGED <<PoolVars, rp, qr, stmt, new_conn, url>>

\* The task polls the ConnectingStream.
PollConnecting(results) ==
    /\ connecting # NoConnecting
    /\ connecting.out.res \in {"none", "NotReady"}
    /\ \A a \in 1..MaxAddrs :
           (\A i \in 1..Len(connecting.inner) : connecting.inner[i].connect # a)
               => results[a] = "NotReady"
    /\ connecting' = ConnectingStream_poll(connecting, results)
    /\ UNCHANGED <<PoolVars, rp, qr, stmt, new_conn, url>>

ConnectingInit ==
    /\ PoolAside
    /\ rp = NoRead
    /\ qr = NoQuery
    /\ stmt = NoStmt
    /\ new_conn = NoNewConn
    /\ url = NoUrl
    /\ connecting = NoConnecting

ConnectingNext ==
    \/ \E r \in Resolutions : NewConnecting(r)
    \/ \E results \in ConnectResults : PollConnecting(results)

ConnectingSpec == ConnectingInit /\ [][ConnectingNext]_vars

\* ------------------------------------------------------------------ service pass

\* Futures and idle connections a pool holds when handle_futures is called.
MaxFutures == 3

FutureIds == 1..MaxFutures

\* Where a connection of the pool is when the pass starts.
PassPlaces == {"none", "idle", "new", "disconnecting", "dropping", "rollback"}

\* The configurations without conn_ttl: the ceiling of return_conn is the
\* wait_timeout of the connection.
PassConfigs == {o \in Configs : o.conn_ttl = <<>>}

\* The connections of one place, in the order they were pushed.
InPlace(place, p) ==
    SelectSeq([c \in FutureIds |-> c], LAMBDA c : place[c] = p)

\* The Conn a place holds: return_conn sends a connection with a result to
\* dropping whatever its transaction, one in a transaction and without a
\* result to rollback; Conn::new and Conn::disconnect hold a connection of
\* which the pool reads nothing.
Stored(p, tx) ==
    IF p \in {"none", "new", "disconnecting"}
    THEN BlankConn
    ELSE [BlankConn EXCEPT !.has_result = (p = "dropping"),
                           !.in_transaction = IF p = "idle" THEN FALSE ELSE tx,
                           !.wait_timeout = opts.wait_timeout]

\* The pool handle_futures may find: at most one handshake in flight, idle
\* within pool_min and empty once the pool is closed.
PassInit ==
    /\ opts \in PassConfigs
    /\ \E place \in [FutureIds -> PassPlaces], closed \in BOOLEAN, tx \in [FutureIds -> BOOLEAN] :
           /\ Len(InPlace(place, "new")) <= 1
           /\ Len(InPlace(place, "idle")) <= IF closed THEN 0 ELSE opts.pool_min
           /\ \A c \in FutureIds : place[c] # "dropping" => tx[c] = (place[c] = "rollback")
           /\ inner = [closed |-> closed, tasks |-> <<>>,
                       idle |-> InPlace(place, "idle"),
                       new |-> InPlace(place, "new"),
                       disconnecting |-> InPlace(place, "disconnecting"),
                       dropping |-> InPlace(place, "dropping"),
                       rollback |-> InPlace(place, "rollback")]
           /\ conns = [c \in FutureIds |-> Stored(place[c], tx[c])]
    /\ fut = [c \in FutureIds |-> NoTask]
    /\ leased = {}
    /\ getconn = [g \in Getters |-> "none"]
    /\ disconnect_pool = "none"
    /\ events = <<>>
    /\ rp = NoRead
    /\ qr = NoQuery
    /\ NoCommands

\* What the first poll of a future pushed during the pass returns: a future
\* that completes at once has just read its last packet (touch), and waits
\* no second.
Fresh == [res |-> "ready", age |-> 0]

\* The outcomes of the successive futures of one connection, n at most: the
\* first is the future the pass finds, each further one the future the
\* connection was moved into when the one before yielded it. <<>> is a
\* future that is not ready.
RECURSIVE Followed(_)
Followed(n) ==
    IF n = 0
    THEN {<<>>}
    ELSE {<<>>, <<[res |-> "failed", age |-> 0]>>}
             \cup {<<Fresh>> \o t : t \in Followed(n - 1)}

\* The futures one connection may go through in one call: a result to drop,
\* a transaction to roll back, a disconnection.
ChainsOf(in, c) ==
    IF c \in Range(in.disconnecting) THEN Followed(1)
    ELSE IF c \in Range(in.new) \cup Range(in.rollback) \cup Range(in.dropping)
    THEN {<<>>, <<[res |-> "failed", age |-> 0]>>}
             \cup {<<[res |-> "ready", age |-> a]>> \o t :
                       a \in Ages,
                       t \in Followed(IF c \in Range(in.dropping) THEN 2 ELSE 1)}
    ELSE {<<>>}

\* One chain for each of the connections 1..n.
RECURSIVE Chains(_, _)
Chains(in, n) ==
    IF n = 0
    THEN {<<>>}
    ELSE {Append(p, x) : p \in Chains(in, n - 1), x \in ChainsOf(in, n)}

\* The pool at the start of a pass whose polls return as chains says.
PassWorld(chains) ==
    [opts |-> opts, inner |-> inner, conns |-> conns, fut |-> fut, held |-> leased,
     io |-> [c \in FutureIds |->
                IF chains[c] = <<>> THEN [res |-> "pending", age |-> 0]
                ELSE Head(chains[c])],
     then |-> [c \in FutureIds |-> IF chains[c] = <<>> THEN <<>> ELSE Tail(chains[c])],
     woken |-> {},
     ev |-> <<[op |-> "start", inner |-> inner]>>]

\* The caller of handle_futures: Pool::poll on an open pool, polled by the
\* task of a GetConn; DisconnectPool::poll on a closed one.
Caller == IF inner.closed THEN DpTask ELSE 1

\* The pool after the call, with the record of the call.
Served(h) ==
    /\ inner' = h.w.inner
    /\ conns' = [c \in FutureIds |->
                     IF c \in Range(h.w.inner.idle) \cup InFutures(h.w.inner)
                     THEN h.w.conns[c] ELSE BlankConn]
    /\ fut' = [c \in FutureIds |-> IF c \in InFutures(h.w.inner) THEN h.w.fut[c] ELSE NoTask]
    /\ events' = Append(h.w.ev, [op |-> "end", err |-> h.err])

\* Pool::handle_futures, called once on the pool.
ServicePass ==
    /\ events = <<>>
    /\ \E chains \in Chains(inner, MaxFutures) :
           Served(handle_futures(PassWorld(chains), Caller))
    /\ UNCHANGED <<opts, leased, getconn, disconnect_pool, rp, qr, stmt, new_conn, url, connecting>>

PassNext == ServicePass

PassSpec == PassInit /\ [][PassNext]_vars

\* ------------------------------------------------------------------ acquire

\* The polls of the stored futures when every handshake, drain, rollback and
\* disconnection succeeds: a future the reactor reported on is ready, and
\* the connection it yields has just read its last packet.
Succeeding ==
    [c \in ConnIds |->
        IF c \in InFutures(inner) THEN [res |-> "ready", age |-> 0] ELSE Quiet[c]]

\* GetConn::poll on a pool whose futures succeed.
AcquirePoll(g) ==
    /\ getconn[g] = "runnable"
    /\ Resolve(g, poll(World(Succeeding), g))
    /\ UNCHANGED <<opts, disconnect_pool, rp, qr, stmt, new_conn, url, connecting>>

\* A borrower releases its lease: the Conn is dropped, however it was used,
\* right after its last packet.
Release(c) ==
    /\ c \in leased
    /\ \E used \in Uses(c) : LetGo(c, used, 0, "none")
    /\ UNCHANGED <<opts, rp, qr, stmt, new_conn, url, connecting>>

AcquireNext ==
    \/ \E g \in Getters : GetConn(g)
    \/ \E g \in Getters : AcquirePoll(g)
    \/ \E c \in ConnIds : Release(c)
    \/ \E g \in Getters : Notify(g)

\* The event loop polls a runnable task: a task does not stay runnable for
\* ever without being polled (weak fairness of AcquirePoll, whose guard is
\* that the task is runnable).
Scheduled(g) ==
    []<>(getconn[g] # "runnable") \/ []<><<AcquirePoll(g)>>_vars

\* The event loop polls a runnable task, the reactor notifies the task of a
\* future whose socket is ready, and a borrower lets go of its lease in the
\* end.
AcquireFair ==
    /\ \A g \in Getters : Scheduled(g) /\ WF_vars(Notify(g))
    /\ \A c \in ConnIds : WF_vars(Release(c))

\* An open pool on which every future succeeds and every lease is released.
AcquireSpec == Init /\ [][AcquireNext]_vars /\ AcquireFair

\* ------------------------------------------------------------------ properties

\* The records of return_conn among those of the last operation.
Returns == {e \in Range(events) : e.op = "return"}

\* The errors the last operation resolved a GetConn with.
Errors == {e \in Range(events) : e.op = "error"}

\* C1: in every reachable state the live connections (leased, idle, new,
\* disconnecting, dropping, rollback) number at most pool_max.
C1_LiveWithinPoolMax == Cardinality(Alive) <= opts.pool_max

\* pool_max connections are leased and none is idle or connecting.
AtCapacity ==
    /\ ~inner.closed
    /\ Cardinality(leased) = opts.pool_max
    /\ inner.idle = <<>>
    /\ inner.new = <<>>

\* C2: when pool_max connections are leased and none is idle or connecting,
\* the poll of one more GetConn parks it and launches no handshake: new
\* stays empty.
C2_ParksAtCapacity ==
    [][\A g \in Getters :
           AtCapacity /\ PollGetConn(g)
               => inner'.new = <<>> /\ getconn'[g] = "parked"]_vars

\* The collection the pool's rules choose for a returned connection, from what
\* return_conn saw of it: over the ceiling, pending result, open transaction,
\* idle already at pool_min, otherwise idle.
Route(e) ==
    IF e.secs > Ceiling(opts) THEN "disconnecting"
    ELSE IF e.has_result THEN "dropping"
    ELSE IF e.in_transaction THEN "rollback"
    ELSE IF e.idle_len >= opts.pool_min THEN "disconnecting"
    ELSE "idle"

\* A return with nothing to clean up, within the ceiling.
CleanReturn(e) == ~e.has_result /\ ~e.in_transaction /\ e.secs <= Ceiling(opts)

\* C3: whenever no connection is leased and no background future is pending,
\* idle.len() <= pool_min; and a clean connection returned to an open pool
\* whose idle already holds pool_min connections goes to disconnecting, not
\* to idle.
C3_IdleWithinPoolMin ==
    /\ leased = {} /\ InFutures(inner) = {} => Len(inner.idle) <= opts.pool_min
    /\ \A e \in Returns :
           CleanReturn(e) /\ e.idle_len >= opts.pool_min /\ e.dest # "destroyed"
               => e.dest = "disconnecting" /\ e.conn \notin Range(inner.idle)

\* C3's case: pool_min = 1, pool_max = 2, both leased connections released;
\* the second went to disconnecting and exactly one is idle.
C3_Witness ==
    /\ opts.pool_min = 1 /\ opts.pool_max = 2
    /\ leased = {} /\ Len(inner.idle) = 1
    /\ \E e \in Returns :
           /\ e.from = "lease" /\ CleanReturn(e) /\ e.idle_len = 1
           /\ e.dest = "disconnecting" /\ e.conn \in Range(inner.disconnecting)

\* How many times connection c occurs in the collections of the pool.
Places(c) ==
    Cardinality({i \in DOMAIN inner.idle : inner.idle[i] = c})
    + Cardinality({i \in DOMAIN inner.new : inner.new[i] = c})
    + Cardinality({i \in DOMAIN inner.disconnecting : inner.disconnecting[i] = c})
    + Cardinality({i \in DOMAIN inner.dropping : inner.dropping[i] = c})
    + Cardinality({i \in DOMAIN inner.rollback : inner.rollback[i] = c})

\* C4: return_conn on an open pool puts the connection in exactly one
\* collection, the one of the first rule that matches: over the ceiling
\* (conn_ttl if configured, else wait_timeout) -> disconnecting; pending
\* result -> dropping; in_transaction -> rollback; idle.len() >= pool_min ->
\* disconnecting; otherwise idle (from where the poll that serviced the
\* return may lease it at once).
C4_ReturnRouting ==
    ~inner.closed =>
        \A e \in Returns :
            /\ e.dest = Route(e)
            /\ IF e.conn \in leased
               THEN e.dest = "idle" /\ Places(e.conn) = 0
               ELSE Places(e.conn) = 1 /\ e.conn \in Range(inner[e.dest])

\* C4's case: a connection with both a pending result and an open
\* transaction was returned, and sits in dropping.
C4_Witness ==
    \E e \in Returns :
        /\ e.has_result /\ e.in_transaction /\ e.secs <= Ceiling(opts)
        /\ e.dest = "dropping" /\ e.conn \in Range(inner.dropping)

\* C5: a leased connection dropped with an unconsumed result, within its
\* TTL, enters dropping; the connection the drain yields re-enters
\* return_conn with the result cleared and, clean and with idle.len() <
\* pool_min, goes to idle; no idle or leased connection carries a pending
\* result.
C5_DirtyReturn ==
    /\ \A e \in Returns :
           e.from = "lease" /\ e.has_result /\ e.secs <= Ceiling(opts)
                   /\ e.dest # "destroyed"
               => /\ e.dest = "dropping"
                  /\ e.conn \in Range(inner.dropping)
                  /\ conns[e.conn].has_result
    /\ \A e \in Returns :
           e.from = "dropping"
               => /\ ~e.has_result
                  /\ CleanReturn(e) /\ e.idle_len < opts.pool_min /\ e.dest # "destroyed"
                         => /\ e.dest = "idle"
                            /\ e.conn \in Range(inner.idle) \cup leased
    /\ \A c \in Range(inner.idle) \cup leased : ~conns[c].has_result

\* C5's case: the drain of a dropped connection completed, the connection
\* went to idle with its result cleared, and the poll leased it.
C5_Witness ==
    \E e \in Returns :
        /\ e.from = "dropping" /\ e.dest = "idle"
        /\ e.conn \in leased /\ ~conns[e.conn].has_result

\* C6: a leased connection dropped with in_transaction = true (and no
\* pending result, within its TTL) enters rollback; the connection the
\* ROLLBACK yields re-enters return_conn with in_transaction = false and,
\* with idle.len() < pool_min, goes to idle; no idle or leased connection is
\* in a transaction when get_conn hands it out.
C6_AbandonedTransaction ==
    /\ \A e \in Returns :
           e.from = "lease" /\ e.in_transaction /\ ~e.has_result
                   /\ e.secs <= Ceiling(opts) /\ e.dest # "destroyed"
               => /\ e.dest = "rollback"
                  /\ e.conn \in Range(inner.rollback)
                  /\ conns[e.conn].in_transaction
    /\ \A e \in Returns :
           e.from = "rollback"
               => /\ ~e.in_transaction /\ ~e.has_result
                  /\ e.secs <= Ceiling(opts) /\ e.idle_len < opts.pool_min
                         /\ e.dest # "destroyed"
                         => /\ e.dest = "idle"
                            /\ e.conn \in Range(inner.idle) \cup leased
    /\ \A c \in Range(inner.idle) \cup leased : ~conns[c].in_transaction

\* C6's case: the ROLLBACK of an abandoned transaction completed, the
\* connection went to idle with in_transaction = false, and the poll leased it.
C6_Witness ==
    \E e \in Returns :
        /\ e.from = "rollback" /\ e.dest = "idle"
        /\ e.conn \in leased /\ ~conns[e.conn].in_transaction

\* C7: with conn_ttl = 0, a clean connection released by its borrower zero
\* whole seconds after its last packet goes to disconnecting, not to idle.
C7_TtlZeroEvicts ==
    opts.conn_ttl = <<0>> =>
        \A e \in Returns :
            e.from = "lease" /\ e.secs = 0 /\ ~e.has_result /\ ~e.in_transaction
                    /\ e.dest # "destroyed"
                => e.dest = "disconnecting"

\* C8: the poll of a GetConn on a closed pool fails with PoolDisconnected;
\* it launches no handshake, parks no task, polls no future and leaves every
\* collection of the pool as it was.
C8_ClosedPoolFails ==
    [][\A g \in Getters :
           inner.closed /\ PollGetConn(g)
               => /\ \E e \in Errors' : e.task = g /\ e.kind = "PoolDisconnected"
                  /\ getconn'[g] = "none"
                  /\ inner' = inner /\ leased' = leased /\ fut' = fut]_vars

\* C8's case: a GetConn was polled on a closed pool that still held futures.
C8_Witness ==
    /\ inner.closed /\ InFutures(inner) # {}
    /\ \E e \in Errors : e.kind = "PoolDisconnected"

\* A GetConn that nothing will wake: it is parked on a closed pool and no
\* stored future has its task registered. (The token it left in tasks is
\* popped by return_conn on an open pool only.)
Stranded(g) ==
    /\ inner.closed
    /\ getconn[g] = "parked"
    /\ \A c \in InFutures(inner) : fut[c] # g

\* Once stranded, stranded in every later state: the GetConn stays pending
\* forever, whatever the event loop and the reactor do.
StrandedForever == [][\A g \in Getters : Stranded(g) => Stranded(g)']_vars

\* C9: after Pool::disconnect no GetConn, created before or after, stays
\* pending forever: each is runnable, or is woken when a stored future it
\* registered with is notified, and its next poll resolves it to an error.
C9_NoneStranded == \A g \in Getters : ~Stranded(g)

\* C10: closed is a latch; once the pool is closed idle is empty in every
\* state and no connection is leased; a connection that completes a
\* handshake, a drain or a rollback goes to disconnecting or is destroyed,
\* and one a borrower drops is destroyed.
C10_ClosedLatch ==
    [][/\ inner.closed => inner'.closed
       /\ inner'.closed => inner'.idle = <<>>
       /\ inner.closed => leased' \subseteq leased
       /\ inner.closed =>
              \A vec \in {"new", "dropping", "rollback"} :
                  \A c \in Range(inner[vec]) :
                      \/ c \in Range(inner'[vec])
                      \/ c \in Range(inner'.disconnecting)
                      \/ c \notin Alive'
       /\ inner.closed =>
              \A c \in leased \ leased' :
                  /\ c \notin Alive'
                  /\ \A e \in Returns' : e.dest = "destroyed"]_vars

\* C10's case: a borrower dropped its connection on a closed pool whose idle
\* is drained: the connection was destroyed.
C10_Witness ==
    /\ inner.closed /\ inner.idle = <<>>
    /\ \E e \in Returns :
           e.from = "lease" /\ e.dest = "destroyed" /\ e.conn \notin Alive

\* C11: every return of a leased connection to an open pool wakes a parked
\* waiter when one exists, whichever branch return_conn takes.
C11_ReturnWakes ==
    [][\A c \in leased \ leased' :
           /\ ~inner.closed
           /\ \E e \in Returns' : e.conn = c /\ e.from = "lease"
           /\ \E g \in Getters : getconn[g] = "parked"
           => \E g \in Getters : getconn[g] = "parked" /\ getconn'[g] = "runnable"]_vars

\* The records of the drops of leased connections in the last operation.
Drops == {e \in Range(events) : e.op = "drop"}

\* How many times the last operation handed connection c to return_conn.
TimesReturned(c) ==
    Cardinality({i \in DOMAIN events : events[i].op = "return" /\ events[i].conn = c})

\* C12: a leased connection whose read failed with an error other than
\* Server (PacketOutOfOrder, ConnectionClosed, Io) is broken: it is not put
\* into idle, dropping or rollback and is not leased again (disconnecting,
\* where connections end, set aside).
C12_BrokenNotReturned ==
    \A d \in Drops :
        d.error \in {"PacketOutOfOrder", "ConnectionClosed", "Io"}
            => d.conn \notin Range(inner.idle) \cup Range(inner.dropping)
                              \cup Range(inner.rollback) \cup leased

\* C13: a leased connection dropped while an I/O operation holds its stream
\* is not handed to return_conn and is in no collection of the pool; one
\* dropped with its stream is handed to return_conn exactly once.
C13_DropReturnsOnce ==
    \A d \in Drops :
        IF d.stream
        THEN TimesReturned(d.conn) = 1
        ELSE TimesReturned(d.conn) = 0 /\ d.conn \notin Alive

\* C13's case: a borrower dropped a connection whose stream an I/O future
\* held, while the pool was open and a task was parked.
C13_Witness ==
    /\ ~inner.closed /\ inner.tasks # <<>>
    /\ \E d \in Drops :
           /\ d.error = "none" /\ ~d.stream
           /\ TimesReturned(d.conn) = 0 /\ d.conn \notin Alive

\* ------------------------------------------------------------------ properties of the packet layer

\* What the stream gave to the last poll of the ReadPacket.
Read == IF rp.out.res = "none" THEN {} ELSE Range(rp.out.read)

\* C14: a packet whose sequence id is not the seq_id of the connection fails
\* the read with PacketOutOfOrder; a packet the read accepts leaves seq_id
\* one past its own sequence id, 0 after 255.
C14_SequenceIds ==
    \A p \in Read :
        IF p.seq # rp.before.seq_id
        THEN rp.out.res = "Err" /\ rp.out.kind = "PacketOutOfOrder"
        ELSE rp.out.res = "Ready"
                 => rp.conn.seq_id = (IF p.seq = 255 THEN 0 ELSE p.seq + 1)

C14_Witness ==
    /\ rp.out.res = "Ready"
    /\ rp.before.seq_id = 255
    /\ rp.conn.seq_id = 0

\* The fields an OK or EOF packet updates.
Metadata(c) == <<c.affected_rows, c.last_insert_id, c.more, c.warnings>>

\* C16: an ERR packet of the expected sequence id resolves the read with one
\* Server error that carries the packet, gives no packet to the caller, and
\* leaves affected_rows, last_insert_id, status and warnings as they were.
C16_ErrPacket ==
    \A p \in Read :
        p.type = "Err" /\ p.seq = rp.before.seq_id
            => /\ rp.out.res = "Err"
               /\ rp.out.kind = "Server"
               /\ rp.out.code = <<p.val>>
               /\ rp.out.packet = <<>>
               /\ Metadata(rp.conn) = Metadata(rp.before)

C16_Witness ==
    /\ rp.out.res = "Err"
    /\ rp.out.kind = "Server"
    /\ \E p \in Read : p.type = "Err" /\ p.val = MaxVal

\* C17: polled after the peer closed the stream with no complete packet
\* left to read, the ReadPacket fails with ConnectionClosed.
C17_EofFailsRead ==
    rp.out.res # "none" /\ rp.endpoint.then = "Eof" /\ Read = {}
        => rp.out.res = "Err" /\ rp.out.kind = "ConnectionClosed"

\* A read that is pending at the end of the stream is pending after every
\* later poll.
EofPendsForever ==
    [][rp.out.res = "NotReady" /\ rp.endpoint.then = "Eof"
           => rp'.out.res = "NotReady"]_vars

\* ------------------------------------------------------------------ properties of the result layer

\* C15: every command packet is written with sequence id 0, whatever seq_id
\* the connection had when the command began.
C15_CommandResetsSeqId ==
    \A c \in Range(qr.cmd) : c.seq = 0

C15_Witness ==
    \E c \in Range(qr.cmd) : c.was > 2 /\ c.seq = 0 /\ qr.conn.seq_id = 1

\* The future op has resolved to a value.
Done(op) == qr.op = op /\ qr.state \in {"result", "conn"} /\ qr.out.res = "Ready"

\* The packet that followed the ones taken when the operation began, and
\* the one after it.
Next1 == qr.script[qr.from.taken + 1]

Next2 == qr.script[qr.from.taken + 2]

\* The result that the header packet h begins.
Begun(h) ==
    IF h.type = "Ok"
    THEN qr.result = "Empty"
    ELSE qr.result = "WithRows" /\ qr.columns = h.val

RECURSIVE RowsFrom(_, _)
RowsFrom(s, i) ==
    IF i > Len(s) \/ s[i].type # "Data"
    THEN <<>>
    ELSE <<s[i]>> \o RowsFrom(s, i + 1)

\* The rows of the set that was current when the operation began, as the
\* server sent them.
SetRows == RowsFrom(qr.script, qr.from.taken + 1)

\* C19: a consumer on a result with rows gives its callback the rows of the
\* current set, each once and in the order of the wire, and takes from the
\* stream those rows, the terminator and, past a terminator with
\* SERVER_MORE_RESULTS_EXISTS, the header of the next result: no row of it.
\* On an empty result it resolves at once, nothing read, nothing called.
C19_OneSet ==
    \A op \in Consumers :
        Done(op)
            => IF qr.from.result = "Empty"
               THEN qr.acc = <<>> /\ qr.taken = qr.from.taken /\ qr.result = "Empty"
               ELSE /\ qr.acc = [i \in 1..Len(SetRows) |->
                                    [columns |-> qr.from.columns, val |-> SetRows[i].val]]
                    /\ qr.script[qr.from.taken + Len(SetRows) + 1].type = "Eof"
                    /\ qr.taken = qr.from.taken + Len(SetRows) + 1
                           + (IF qr.script[qr.from.taken + Len(SetRows) + 1].more
                              THEN 1 ELSE 0)

C19_Witness ==
    /\ Done("for_each")
    /\ qr.from.result = "WithRows"
    /\ Len(qr.acc) = MaxRows
    /\ qr.acc[1].val # qr.acc[2].val
    /\ qr.result = "WithRows" /\ qr.columns # qr.from.columns
    /\ qr.taken < Len(qr.script)

\* C20: when drop_result resolves to the connection, every packet of the
\* response was taken from the stream and the connection has no pending
\* result.
C20_DropDrainsAll ==
    Done("drop_result") => qr.taken = Len(qr.script) /\ ~qr.pending

\* A response in which an OK packet, the answer to a statement without a
\* result set, has SERVER_MORE_RESULTS_EXISTS in its status flags: the
\* answers to further statements follow it.
OkBeforeResults ==
    \E i \in 1..Len(qr.script) : qr.script[i].type = "Ok" /\ qr.script[i].more

\* Of a response in which only the EOF packets of result sets announce more
\* results, drop_result takes every packet.
DropDrainsResultSets ==
    Done("drop_result") /\ ~OkBeforeResults => qr.taken = Len(qr.script) /\ ~qr.pending

\* C21: while the caller holds the QueryResult, is_empty() is true exactly
\* when the stream has nothing of the response left: no row and no further
\* result.
C21_EmptyIffDone ==
    qr.state = "result" => (qr.result = "Empty" <=> qr.taken = Len(qr.script))

\* The same for the responses in which only the EOF packets of result sets
\* announce more results.
EmptyIffDoneResultSets ==
    qr.state = "result" /\ ~OkBeforeResults
        => (qr.result = "Empty" <=> qr.taken = Len(qr.script))

\* The two result sets of SELECT 1; SELECT 'a', 'b': is_empty() is false
\* with the first consumed and the second left, true with both consumed.
TwoSetsSeen ==
    /\ qr.state = "result"
    /\ ~OkBeforeResults
    /\ \E i \in 1..Len(qr.script) : qr.script[i].type = "Eof" /\ qr.script[i].more
    /\ qr.result = "Empty"
    /\ qr.taken = Len(qr.script)

\* The packet at place i begins a result set: it is no OK, EOF or ERR packet
\* and it is the first of the response or follows an OK or EOF packet.
IsHeader(s, i) ==
    /\ s[i].type = "Data"
    /\ i = 1 \/ s[i - 1].type \in {"Ok", "Eof"}

\* With t packets of s taken, a result set has begun and its terminator was
\* not read.
MidSet(s, t) ==
    \E h \in 1..t : IsHeader(s, h) /\ \A j \in (h + 1)..t : s[j].type = "Data"

\* A future that resolves to the bare connection, chained to a consumer or
\* not, has resolved.
HandedBack == Done("drop_result")

\* C22: in the caller's hands (a QueryResult or the connection, no future
\* pending) the connection has a pending result exactly when a result set
\* has begun and its terminator was not read; drop_result and the
\* ..._and_drop futures resolve to the connection only when the response
\* was read to its end, and then no result is pending.
C22_PendingResult ==
    /\ qr.state \in {"result", "conn"}
           => (qr.pending <=> MidSet(qr.script, qr.taken))
    /\ HandedBack => qr.taken = Len(qr.script) /\ ~qr.pending

\* The same for the responses in which only the EOF packets of result sets
\* announce more results.
PendingResultOfResultSets ==
    ~OkBeforeResults
        => /\ qr.state \in {"result", "conn"}
                  => (qr.pending <=> MidSet(qr.script, qr.taken))
           /\ HandedBack => qr.taken = Len(qr.script) /\ ~qr.pending

\* An ..._and_drop future handed the connection back after its consumer
\* received the rows of the first of two result sets.
AndDropSeen ==
    /\ HandedBack
    /\ qr.and_drop
    /\ Len(qr.acc) = MaxRows
    /\ qr.taken = Len(qr.script)
    /\ \E i \in 1..Len(qr.script) : qr.script[i].type = "Eof" /\ qr.script[i].more

\* ------------------------------------------------------------------ properties of the statements

\* The metadata of an InnerStmt that a cache hit must reproduce.
Metadata_of(inner_stmt) ==
    [statement_id |-> inner_stmt.statement_id, num_params |-> inner_stmt.num_params,
     num_columns |-> inner_stmt.num_columns, params |-> inner_stmt.params,
     columns |-> inner_stmt.columns]

\* C23: of two prepares of the same SQL text that resolved on one
\* connection, the later one has the statement_id, num_params, num_columns,
\* params and columns of the earlier one and wrote no COM_STMT_PREPARE,
\* whatever the counts the server reported.
C23_CacheHitEquivalence ==
    \A i \in DOMAIN stmt.prepared : \A j \in DOMAIN stmt.prepared :
        i < j /\ stmt.prepared[i].text = stmt.prepared[j].text
            => /\ Metadata_of(stmt.prepared[j].stmt) = Metadata_of(stmt.prepared[i].stmt)
               /\ ~stmt.prepared[j].wrote

\* What holds of C23: the same, of the statements that have a parameter or
\* a column.
CacheHitOfDescribed ==
    \A i \in DOMAIN stmt.prepared : \A j \in DOMAIN stmt.prepared :
        (/\ i < j
         /\ stmt.prepared[i].text = stmt.prepared[j].text
         /\ (stmt.prepared[i].stmt.num_params > 0
                \/ stmt.prepared[i].stmt.num_columns > 0))
            => /\ Metadata_of(stmt.prepared[j].stmt) = Metadata_of(stmt.prepared[i].stmt)
               /\ ~stmt.prepared[j].wrote

PreparedTwice ==
    /\ Len(stmt.prepared) >= 2
    /\ stmt.prepared[1].text = stmt.prepared[2].text
    /\ stmt.prepared[1].stmt.num_params > 0
    /\ stmt.prepared[1].stmt.num_columns > 0

\* C24: of two prepares that resolved on one connection and whose rewritten
\* SQL is the same, the later one wrote no command and has the
\* statement_id and the metadata of the earlier one, and its named_params
\* are those of its own text.
C24_CacheKey ==
    \A i \in DOMAIN stmt.prepared : \A j \in DOMAIN stmt.prepared :
        (/\ i < j
         /\ stmt.prepared[i].query = stmt.prepared[j].query
         /\ (stmt.prepared[i].stmt.num_params > 0
                \/ stmt.prepared[i].stmt.num_columns > 0))
            => /\ ~stmt.prepared[j].wrote
               /\ Metadata_of(stmt.prepared[j].stmt) = Metadata_of(stmt.prepared[i].stmt)
               /\ stmt.prepared[j].stmt.named_params
                      = parse_named_params(stmt.prepared[j].text).named_params

C24_Witness ==
    /\ Len(stmt.prepared) >= 2
    /\ stmt.prepared[1].query = stmt.prepared[2].query
    /\ stmt.prepared[1].stmt.named_params # stmt.prepared[2].stmt.named_params
    /\ stmt.prepared[1].stmt.named_params # <<>>
    /\ stmt.prepared[2].stmt.named_params # <<>>
    /\ ~stmt.prepared[2].wrote

\* The executions of the BatchExec, in the order it began them.
Executions == SelectSeq(stmt.did, LAMBDA d : d.op = "execute")

\* C27: a BatchExec prepares once, first; it executes the statement with
\* the parameter sets in the order given, each once, and between two
\* executions it drops the result of the first, of which nothing is unread
\* when the second begins; it resolves only after it executed the last
\* parameter set and dropped its result, and without any execution when it
\* was given no parameter set.
C27_BatchExec ==
    stmt.did # <<>> =>
        /\ stmt.did[1].op = "prepare"
        /\ \A i \in 2..Len(stmt.did) :
               /\ stmt.did[i].op # "prepare"
               /\ stmt.did[i].op = "drop_result" => stmt.did[i - 1].op = "execute"
               /\ stmt.did[i].op \in {"execute", "Ready"}
                      => /\ stmt.did[i - 1].op \in {"prepare", "drop_result"}
                         /\ stmt.did[i].unread = 0
               /\ stmt.did[i].op = "Ready"
                      => i = Len(stmt.did) /\ Len(Executions) = Len(stmt.batch.given)
        /\ Len(Executions) <= Len(stmt.batch.given)
        /\ \A k \in 1..Len(Executions) : Executions[k].params = <<stmt.batch.given[k]>>

C27_Witness ==
    /\ qr.state = "conn"
    /\ Len(stmt.did) = 2 * MaxBatch + 2
    /\ stmt.did[Len(stmt.did)].op = "Ready"
    /\ stmt.batch.given[1] # stmt.batch.given[MaxBatch]
    /\ qr.taken > 1

NothingToExecute ==
    /\ qr.state = "conn"
    /\ stmt.did # <<>>
    /\ stmt.did[Len(stmt.did)].op = "Ready"
    /\ stmt.batch.given = <<>>
    /\ stmt.prepared # <<>>
    /\ ~stmt.prepared[Len(stmt.prepared)].wrote

\* ------------------------------------------------------------------ properties of new connections

\* What a NewConn over init does after the handshake, when nothing fails.
RECURSIVE InitSteps(_, _)
InitSteps(init, i) ==
    IF i > Len(init) THEN <<>>
    ELSE <<[op |-> "Query", index |-> i - 1], [op |-> "CollectAll", index |-> i - 1]>>
             \o InitSteps(init, i + 1)

BootstrapSteps(init) ==
    <<[op |-> "ReadMaxAllowedPacket", index |-> 0], [op |-> "ReadWaitTimeout", index |-> 0]>>
        \o InitSteps(init, 1) \o <<[op |-> "Ready", index |-> 0]>>

\* What the NewConn did after the handshake.
AfterHandshake ==
    SelectSeq(new_conn.did, LAMBDA d : d.op \notin {"ReadHandshake", "WriteHandshake"})

\* C25: after the handshake a NewConn reads max_allowed_packet, then
\* wait_timeout, then runs the init statements in the configured order from
\* index 0, each once and each collected before the next is issued (no
\* packet is unread when a command is written), and resolves after the
\* last, or right after wait_timeout when there is none; no index
\* underflows.
C25_Bootstrap ==
    /\ Len(AfterHandshake) <= Len(BootstrapSteps(new_conn.init))
    /\ \A i \in 1..Len(AfterHandshake) :
           /\ AfterHandshake[i].op = BootstrapSteps(new_conn.init)[i].op
           /\ AfterHandshake[i].index = BootstrapSteps(new_conn.init)[i].index
           /\ AfterHandshake[i].op # "CollectAll" => AfterHandshake[i].unread = 0
    /\ new_conn.out.res = "Ready"
           => Len(AfterHandshake) = Len(BootstrapSteps(new_conn.init))
    /\ new_conn.init_len <= Len(new_conn.init)
    /\ new_conn.out.res = "panic" => new_conn.conn = <<>> /\ AfterHandshake = <<>>

C25_Witness ==
    /\ new_conn.out.res = "Ready"
    /\ Len(new_conn.init) = MaxInit
    /\ new_conn.init[1] # new_conn.init[MaxInit]
    /\ Len(AfterHandshake) = 3 + 2 * MaxInit

NoInit ==
    /\ new_conn.out.res = "Ready"
    /\ new_conn.init = <<>>
    /\ Len(AfterHandshake) = 3

\* The NewConn failed with the server's error and made no Conn.
Refused ==
    /\ new_conn.out = [res |-> "Err", kind |-> "Server"]
    /\ new_conn.conn = <<>>
    /\ AfterHandshake = <<>>

\* C26: the handshake response is written once, right after the initial
\* handshake was read and with the sequence id after its own; once an ERR
\* packet was read in place of the initial handshake, or in place of the
\* acknowledgement, the NewConn has failed with the server's error, no Conn
\* exists and nothing of the bootstrap was written (nor, in the first case,
\* the handshake response).
C26_Handshake ==
    /\ \A i \in 1..Len(new_conn.did) :
           /\ new_conn.did[i].op = "ReadHandshake" => i = 1
           /\ new_conn.did[i].op = "WriteHandshake"
                  => /\ i = 2
                     /\ new_conn.did[1].op = "ReadHandshake"
                     /\ new_conn.did[2].seq = wrapping_add(new_conn.did[1].seq, 1)
    /\ AfterHandshake # <<>> => Len(new_conn.did) > 2 /\ new_conn.did[2].op = "WriteHandshake"
    /\ new_conn.taken >= 1 /\ new_conn.greeting.type = "Err"
           => Refused /\ new_conn.did = <<>>
    /\ new_conn.taken >= 2 /\ new_conn.ack = "Err" => Refused

C26_Witness ==
    /\ Refused
    /\ new_conn.ack = "Err"
    /\ new_conn.taken = 2
    /\ Len(new_conn.did) = 2
    /\ new_conn.did[1].seq = 1
    /\ new_conn.did[2].seq = 2

GreetingRefused ==
    /\ Refused
    /\ new_conn.greeting.type = "Err"
    /\ new_conn.taken = 1

\* Where the sequence id of the initial handshake is the last a u8 holds,
\* the response is written with 0 or the future panics.
HandshakeWraps ==
    /\ Len(new_conn.did) >= 2
    /\ new_conn.did[1].seq = U8 - 1
    /\ new_conn.did[2].seq = 0

HandshakePanics ==
    /\ new_conn.out = [res |-> "panic", kind |-> "overflow"]
    /\ new_conn.did[1].seq = U8 - 1

\* ------------------------------------------------------------------ properties of the options

\* The value of the last pair of pairs with key, or default without one.
RECURSIVE LastGiven(_, _, _)
LastGiven(pairs, key, default) ==
    IF pairs = <<>> THEN default
    ELSE IF pairs[Len(pairs)].key = key
    THEN Decimal(pairs[Len(pairs)].value)
    ELSE LastGiven(SubSeq(pairs, 1, Len(pairs) - 1), key, default)

\* A URL that from_url faults for nothing but the constraint of the pool.
WellFormed(u) ==
    /\ u.scheme = "mysql"
    /\ u.has_host
    /\ \A i \in 1..Len(u.query_pairs) :
           /\ u.query_pairs[i].key \in {"pool_min", "pool_max"}
           /\ u.query_pairs[i].value # <<>>
           /\ \A j \in 1..Len(u.query_pairs[i].value) :
                  u.query_pairs[i].value[j] \in {"0", "1"}

\* C28: from_url gives no options with pool_min > pool_max; the options it
\* gives have the pool_min and pool_max given last in the URL, 10 and 100
\* where none is given; and for a URL of recognised parameters with numeric
\* values in which these exceed one another it fails with
\* InvalidPoolConstraints.
C28_PoolConstraints ==
    url.out.res # "none" =>
        /\ url.out.res = "Ok"
               => /\ url.out.opts.pool_min <= url.out.opts.pool_max
                  /\ url.out.opts.pool_min
                         = LastGiven(url.given.query_pairs, "pool_min", 10)
                  /\ url.out.opts.pool_max
                         = LastGiven(url.given.query_pairs, "pool_max", 100)
        /\ (/\ WellFormed(url.given)
            /\ LastGiven(url.given.query_pairs, "pool_min", 10)
                   > LastGiven(url.given.query_pairs, "pool_max", 100))
               => url.out = Err("InvalidPoolConstraints",
                                <<LastGiven(url.given.query_pairs, "pool_min", 10),
                                  LastGiven(url.given.query_pairs, "pool_max", 100)>>)

C28_Witness ==
    /\ url.out.res = "Err"
    /\ url.out.kind = "InvalidPoolConstraints"
    /\ url.out.args = <<101, 100>>
    /\ Len(url.given.query_pairs) = MaxPairs
    /\ \A i \in 1..MaxPairs : url.given.query_pairs[i].key = "pool_min"

DefaultsKept ==
    /\ url.out.res = "Ok"
    /\ url.given.query_pairs = <<>>
    /\ url.out.opts = [pool_min |-> 10, pool_max |-> 100]

MaxBelowDefaultMin ==
    /\ url.out.res = "Err"
    /\ url.out.kind = "InvalidPoolConstraints"
    /\ url.out.args = <<10, 1>>

\* ------------------------------------------------------------------ properties of the collections

\* The collections of the pool and the connections the borrowers hold.
Collections ==
    <<Range(inner.new), Range(inner.idle), Range(inner.disconnecting),
      Range(inner.dropping), Range(inner.rollback), leased>>

\* C29: new, idle, disconnecting, dropping, rollback and the leased
\* connections are pairwise disjoint.
C29_Disjoint ==
    \A i \in 1..6 : \A j \in 1..6 : i # j => Collections[i] \cap Collections[j] = {}

C29_Witness ==
    /\ leased # {}
    /\ inner.idle # <<>>
    /\ \E i \in 1..Len(events) : events[i].op = "return" /\ events[i].dest = "idle"

AllCollectionsUsed ==
    /\ leased # {}
    /\ InFutures(inner) # {}
    /\ \E i \in 1..Len(events) :
           events[i].op = "return" /\ events[i].dest = "disconnecting"

\* ------------------------------------------------------------------ properties of the service pass

\* The last operation resolved a GetConn with the error of a handshake.
HandshakeFailed == \E e \in Errors : e.kind = "Handshake"

\* C30: every error a GetConn resolves with is PoolDisconnected, the
\* failure of a handshake future on an open pool included, and the failed
\* future has left new.
C30_ServiceFailures ==
    /\ \A e \in Errors : e.kind = "PoolDisconnected"
    /\ HandshakeFailed => inner.new = <<>>

\* What holds of C30: the failed handshake future has left new, the pool is
\* open and its connection is nowhere in the pool.
FailedHandshakeRemoved ==
    HandshakeFailed => inner.new = <<>> /\ ~inner.closed

\* A pool that closed while a handshake was in flight swallows its failure:
\* no GetConn resolves with it.
ClosedSwallows == inner.closed => ~HandshakeFailed

\* ------------------------------------------------------------------ properties of the passes

\* The record of a call of handle_futures: the pool it found, its polls and
\* what the arms did, a mark at the end of each pass, and what it returned.
Called == events # <<>> /\ events[1].op = "start"

PassEnds == {i \in 1..Len(events) : events[i].op = "pass"}

\* The record before the first of pass i (the mark of the pass before, or
\* the start of the call).
PassBegin(i) ==
    CHOOSE j \in 1..(i - 1) :
        /\ events[j].op \in {"start", "pass"}
        /\ \A k \in (j + 1)..(i - 1) : events[k].op # "pass"

\* The polls of the pass that ends at i.
PollsOf(i) == {j \in (PassBegin(i) + 1)..(i - 1) : events[j].op = "poll"}

LastPass == CHOOSE i \in PassEnds : \A j \in PassEnds : j <= i

ReturnedOk == Called /\ ~events[Len(events)].err

\* The collection that stores the future of c.
Holder(in, c) ==
    CHOOSE vec \in {"new", "disconnecting", "dropping", "rollback"} : c \in Range(in[vec])

\* C31: a pass of handle_futures is followed by another exactly when one of
\* its polls returned Ok(Ready) and it did not end in the early return; the
\* call ends after at most one pass more than three per stored future; when
\* it returns Ok, every future still stored was polled in the last pass and
\* was not ready, and every connection dropping, rollback or new yielded
\* went at once to return_conn, or into Conn::disconnect on a closed pool.
C31_Fixpoint ==
    Called =>
        /\ \A i \in PassEnds :
               /\ events[i].handled = (\E j \in PollsOf(i) : events[j].res = "ready")
               /\ (\E k \in PassEnds : k > i) = (events[i].handled /\ ~events[i].err)
        /\ events[Len(events)].err = events[LastPass].err
        /\ Cardinality(PassEnds) <= 1 + 3 * Cardinality(InFutures(events[1].inner))
        /\ ReturnedOk =>
               /\ \A c \in InFutures(inner) :
                      \E j \in PollsOf(LastPass) :
                          /\ events[j].conn = c
                          /\ events[j].vec = Holder(inner, c)
                          /\ events[j].res = "pending"
               /\ \A j \in 1..Len(events) :
                      (/\ events[j].op = "poll"
                       /\ events[j].res = "ready"
                       /\ events[j].vec # "disconnecting")
                      => /\ events[j + 1].op = IF inner.closed THEN "disconnect" ELSE "return"
                         /\ events[j + 1].conn = events[j].conn
                         /\ events[j + 1].from = events[j].vec

\* A call of three passes that returned Ok on an open pool and left a future
\* stored.
C31_Witness ==
    /\ ReturnedOk
    /\ ~inner.closed
    /\ Cardinality(PassEnds) = 3
    /\ InFutures(inner) # {}

\* A closed pool: the connection a future yields is disconnected.
ClosedPassRearms ==
    /\ ReturnedOk
    /\ inner.closed
    /\ \E j \in 1..Len(events) : events[j].op = "disconnect"

Vecs == {"new", "disconnecting", "dropping", "rollback"}

PolledIn(vec, c) ==
    {j \in 1..Len(events) :
        events[j].op = "poll" /\ events[j].vec = vec /\ events[j].conn = c}

\* The connections whose future in vec completed during the call: its poll
\* returned Ok(Ready) or Err.
Completed(vec) ==
    {c \in FutureIds : \E j \in PolledIn(vec, c) : events[j].res # "pending"}

\* The connections the call moved into a future of vec.
PushedInto(vec) ==
    {events[j].conn : j \in {k \in 1..Len(events) :
        \/ events[k].op = "return" /\ events[k].dest = vec
        \/ events[k].op = "disconnect" /\ vec = "disconnecting"}}

\* C39: handle_futures takes out of each collection exactly the futures
\* whose poll returned Ok(Ready) or Err, and keeps every other future, once
\* each; a future is polled at most once in a pass, never again after it
\* completed, and in every further pass as long as it is not ready.
C39_ExactRemoval ==
    Called =>
        \A vec \in Vecs :
            /\ Range(inner[vec])
                   = (Range(events[1].inner[vec]) \cup PushedInto(vec)) \ Completed(vec)
            /\ Len(inner[vec]) = Cardinality(Range(inner[vec]))
            /\ \A c \in FutureIds :
                   /\ \A j, k \in PolledIn(vec, c) :
                          j < k => /\ events[j].res = "pending"
                                   /\ \E i \in PassEnds : j < i /\ i < k
                   /\ \A j \in PolledIn(vec, c), i \in PassEnds :
                          (/\ events[j].res = "pending"
                           /\ j < PassBegin(i)
                           /\ PassBegin(i) \in PassEnds
                           /\ j > PassBegin(PassBegin(i))
                           /\ ~events[i].err)
                          => \E k \in PollsOf(i) : k \in PolledIn(vec, c)

\* Three futures in one collection, of which the first and the last
\* completed in the first pass, one ready and one failed, and the second was
\* kept.
C39_Witness ==
    /\ Called
    /\ \E vec \in Vecs :
           /\ Len(events[1].inner[vec]) = 3
           /\ Range(inner[vec]) = {events[1].inner[vec][2]}
           /\ events[2].op = "poll" /\ events[2].vec = vec /\ events[2].index = 1
           /\ \E j \in PolledIn(vec, events[1].inner[vec][3]) :
                  events[j].res # "pending" /\ events[j].res # events[2].res

\* A call that left through the early return kept the futures that were not
\* ready.
EarlyReturnKeeps ==
    /\ Called
    /\ events[Len(events)].err
    /\ InFutures(inner) # {}

\* ------------------------------------------------------------------ properties of the handshakes in flight

\* C37: new never holds more than one NewConn, however many GetConn futures
\* are polled.
C37_OneHandshake == Len(inner.new) <= 1

\* One handshake in flight and every GetConn parked behind it.
C37_Witness ==
    /\ Len(inner.new) = 1
    /\ \A g \in Getters : getconn[g] = "parked"

\* ------------------------------------------------------------------ properties of idle connections

Clean(conn) == ~conn.has_result /\ ~conn.in_transaction /\ conn.stream

\* C38: every connection in idle, and every connection a GetConn resolved
\* with, has no pending result, is in no transaction and holds its stream.
C38_IdleClean ==
    \A c \in Range(inner.idle) \cup leased : Clean(conns[c])

\* A connection that came back from the drain of its result or the rollback
\* of its transaction and is in idle.
C38_Witness ==
    \E e \in Returns :
        /\ e.from \in {"dropping", "rollback"}
        /\ e.dest = "idle"
        /\ e.conn \in Range(inner.idle)

\* A connection taken from idle by a GetConn after it had been returned dirty.
CleanedAndLeased ==
    /\ leased # {}
    /\ \E e \in Returns : e.from = "rollback" /\ e.dest = "idle" /\ e.conn \in leased

\* ------------------------------------------------------------------ properties of connecting

ConnectPolled == connecting # NoConnecting /\ connecting.out.res # "none"

\* The addresses whose connect was ready at the last poll.
ConnectsReady == {a \in 1..MaxAddrs : connecting.last[a] = "Ready"}

\* C35: connecting_stream::new starts one connect per resolved address, and
\* none when the resolution fails or gives no address: the future then fails
\* at its poll without polling any connect. Otherwise a poll succeeds
\* exactly when a connect is ready at it, with the first of inner that is
\* ready, and fails exactly when the connect of every address has failed.
C35_Race ==
    connecting # NoConnecting =>
        /\ (connecting.step = "Fail")
               = (~connecting.given.ok \/ connecting.given.addrs = <<>>)
        /\ Len(connecting.connects) = Len(connecting.given.addrs)
        /\ \A i \in 1..Len(connecting.connects) :
               connecting.connects[i].connect = connecting.given.addrs[i]
        /\ (ConnectPolled /\ connecting.step = "Fail")
               => /\ connecting.out.res = "Err"
                  /\ connecting.polled = <<>>
                  /\ connecting.connects = <<>>
        /\ (ConnectPolled /\ connecting.step = "WaitForStream")
               => /\ (connecting.out.res = "Ready") = (ConnectsReady # {})
                  /\ connecting.out.res = "Ready"
                         => /\ connecting.out.stream \in ConnectsReady
                            /\ \A a \in ConnectsReady : connecting.out.stream <= a
                  /\ (connecting.out.res = "Err")
                         = (Range(connecting.failed) = Range(connecting.given.addrs))
                  /\ Len(connecting.failed) = Cardinality(Range(connecting.failed))

\* Three addresses: the connect of the first failed at an earlier poll, the
\* one of the second is ready while the third is still pending.
C35_Witness ==
    /\ ConnectPolled
    /\ Len(connecting.given.addrs) = 3
    /\ connecting.failed = <<1>>
    /\ connecting.polled = <<[connect |-> 2, res |-> "Ready"]>>
    /\ connecting.out = [res |-> "Ready", stream |-> 2]

\* The resolution failed, or gave no address: the future failed without a
\* connect.
NothingToConnect ==
    /\ ConnectPolled
    /\ connecting.step = "Fail"
    /\ connecting.error = "InvalidInput"

\* Every connect failed, the last of them at a later poll than the first.
AllConnectsFailed ==
    /\ ConnectPolled
    /\ connecting.out.res = "Err"
    /\ Len(connecting.failed) = 3
    /\ Len(connecting.polled) = 1

\* ------------------------------------------------------------------ properties of the frame of a read

\* The fields of a connection apart from those named.
Others(c, fields) == [f \in (DOMAIN c) \ fields |-> c[f]]

\* C40: the connection a ReadPacket yields differs from the one it was
\* given in seq_id (one past the packet's), in last_io (touched), and in
\* what the packet sets: affected rows, last insert id, status and warnings
\* for an OK packet, status and warnings for an EOF packet, nothing for any
\* other packet; the transaction, the pending result and the statement
\* cache are as they were.
C40_ReadFrame ==
    rp.out.res = "Ready" =>
        /\ rp.conn.touched
        /\ rp.conn.seq_id = wrapping_add(rp.out.packet[1].seq, 1)
        /\ rp.out.packet[1].type = "Ok"
               => /\ <<rp.conn.affected_rows, rp.conn.last_insert_id, rp.conn.warnings>>
                      = <<rp.out.packet[1].val, rp.out.packet[1].val, rp.out.packet[1].val>>
                  /\ rp.conn.more = rp.out.packet[1].more
                  /\ Others(rp.conn, {"seq_id", "touched", "more", "affected_rows",
                                      "last_insert_id", "warnings"})
                         = Others(rp.before, {"seq_id", "touched", "more", "affected_rows",
                                              "last_insert_id", "warnings"})
        /\ rp.out.packet[1].type = "Eof"
               => /\ rp.conn.warnings = rp.out.packet[1].val
                  /\ rp.conn.more = rp.out.packet[1].more
                  /\ Others(rp.conn, {"seq_id", "touched", "more", "warnings"})
                         = Others(rp.before, {"seq_id", "touched", "more", "warnings"})
        /\ rp.out.packet[1].type \notin {"Ok", "Eof"}
               => Others(rp.conn, {"seq_id", "touched"})
                      = Others(rp.before, {"seq_id", "touched"})

\* An EOF packet with warnings and SERVER_MORE_RESULTS_EXISTS was read on a
\* connection in a transaction, with a pending result and a cached statement.
C40_Witness ==
    /\ rp.out.res = "Ready"
    /\ rp.out.packet[1].type = "Eof"
    /\ rp.out.packet[1].val = 1
    /\ rp.out.packet[1].more
    /\ rp.before.in_transaction
    /\ rp.conn.warnings = 1
    /\ rp.conn.affected_rows = 0

\* A packet that is neither OK nor EOF nor ERR was read.
OtherPacketRead ==
    /\ rp.out.res = "Ready"
    /\ rp.out.packet[1].type = "Data"
    /\ rp.out.packet[1].val = 1
    /\ rp.before.pending_result

\* ------------------------------------------------------------------ properties of the prepare response

\* A Prepare that wrote COM_STMT_PREPARE has just resolved to a statement
\* with a parameter or a column.
PreparedNow ==
    /\ qr.state = "stmt"
    /\ stmt.out # <<>>
    /\ stmt.prepared[Len(stmt.prepared)].wrote
    /\ (stmt.out[1].num_params > 0 \/ stmt.out[1].num_columns > 0)

\* The payloads of the packets i..j of the response.
Payloads(i, j) == [k \in 1..(j - i + 1) |-> qr.script[i + k - 1].val]

\* C32: a Prepare that is pending has read every packet that arrived and
\* waits for one the server still sends; when it resolves it has read the
\* whole response, and its params are the num_params packets after the
\* first, its columns the num_columns packets after the terminator of the
\* parameters (if any), none of them an EOF packet.
C32_PrepareReads ==
    /\ (qr.state = "future" /\ qr.op = "prepare")
           => /\ qr.stream.buf = <<>>
              /\ qr.script # <<>> => qr.taken < Len(qr.script)
    /\ PreparedNow
           => /\ qr.taken = Len(qr.script)
              /\ qr.stream.buf = <<>>
              /\ Len(qr.script) = 1 + stmt.out[1].num_params
                                    + (IF stmt.out[1].num_params > 0 THEN 1 ELSE 0)
                                    + stmt.out[1].num_columns
                                    + (IF stmt.out[1].num_columns > 0 THEN 1 ELSE 0)
              /\ stmt.out[1].params = <<Payloads(2, 1 + stmt.out[1].num_params)>>
              /\ stmt.out[1].columns
                     = <<Payloads(Len(qr.script) - stmt.out[1].num_columns,
                                  Len(qr.script) - 1)>>
              /\ \A k \in (2..(1 + stmt.out[1].num_params))
                             \cup ((Len(qr.script) - stmt.out[1].num_columns)
                                       ..(Len(qr.script) - 1)) :
                     qr.script[k].type # "Eof"

\* A statement with a parameter and a column was prepared.
C32_Witness ==
    /\ PreparedNow
    /\ stmt.out[1].num_params = 1
    /\ stmt.out[1].num_columns = 1
    /\ Len(stmt.out[1].params[1]) = 1
    /\ Len(stmt.out[1].columns[1]) = 1

\* Parameters and no column; columns and no parameter.
OnlyParams == PreparedNow /\ stmt.out[1].num_params = 2 /\ stmt.out[1].num_columns = 0

OnlyColumns == PreparedNow /\ stmt.out[1].num_params = 0 /\ stmt.out[1].num_columns = 2

\* The tasks the last operation unparked, in the order of the unpark calls.
Unparked(ev) ==
    LET s == SelectSeq(ev, LAMBDA e : e.op = "unpark")
    IN [i \in 1..Len(s) |-> s[i].task]

\* A sequence from its tail to its head.
Backwards(s) == [i \in 1..Len(s) |-> s[Len(s) + 1 - i]]

\* C34: waiters parked in get_conn are woken last in, first out. A GetConn
\* that parks is the tail of tasks (the most recently parked waiter), and an
\* operation that wakes waiters unparks all of tasks from the tail to the
\* head, the most recently parked first.
C34_WokenLifo ==
    [][/\ \A g \in Getters :
              (getconn[g] = "runnable" /\ getconn'[g] = "parked")
                  => /\ inner'.tasks # <<>>
                     /\ inner'.tasks[Len(inner'.tasks)] = g
       /\ Unparked(events') \in {<<>>, Backwards(inner.tasks)}]_vars

\* Task 1 parked, task 2 parked after it, and a return woke both: task 2
\* first.
C34_Witness == Unparked(events) = <<2, 1>> /\ \E e \in Range(events) : e.op = "return"

\* Task 1 parked again after task 2, and was woken first.
LaterParkedFirst == Unparked(events) = <<1, 2>>

\* A return that found nobody parked woke nobody.
NobodyParked == (\E e \in Range(events) : e.op = "return" /\ e.dest = "idle") /\ Unparked(events) = <<>>

\* C33: the stream of a connection is held by at most one I/O operation at a
\* time. take_stream is never applied to a streamless value and
\* return_stream never to one that holds its stream (neither panic is
\* reached by any sequence of ping, query, row pulls, consumers and drops),
\* the stream is out exactly while a ReadPacket is pending, and between
\* operations the connection or the result holds its stream.
C33_OneHolder ==
    /\ qr.panic = "none"
    /\ qr.reading => (qr.state = "future" /\ qr.either = "B")
    /\ (qr.state = "future" /\ ~qr.reading) => qr.either = "A"
    /\ qr.state \in {"conn", "result", "closed"} => (qr.either = "A" /\ ~qr.reading)
    /\ qr.state = "failed" => (~qr.reading /\ (qr.either = "B" => qr.out.kind = "Io"))

\* In the middle of drop_result, after packets were read (each with a take
\* and a return), a ReadPacket is pending with the stream.
C33_Witness ==
    /\ qr.state = "future"
    /\ qr.op = "drop_result"
    /\ qr.taken >= 2
    /\ qr.reading
    /\ qr.either = "B"

\* drop_result resolved to the connection after three packets or more, and
\* the connection holds its stream.
StreamBack ==
    /\ qr.state = "conn"
    /\ qr.op = "drop_result"
    /\ qr.taken >= 3
    /\ qr.either = "A"

\* A read failed on an ERR packet: the stream was returned before the
\* future failed.
FailedWithStream == qr.state = "failed" /\ qr.out.kind = "Server" /\ qr.either = "A"

\* Every GetConn resolves in the end.
Resolves(g) == (getconn[g] # "none") ~> (getconn[g] = "none")

\* Task 1 is the only borrower: no other task ever asks for a connection.
Lone == [](\A g \in Getters : g # 1 => getconn[g] = "none")

\* C36: on an open pool where every handshake succeeds and every lease is
\* released, a GetConn resolves in the end, whatever pool_min is; here for
\* a borrower that competes with nobody.
C36_AcquireLive == Lone => Resolves(1)

\* On such a pool a GetConn resolves with a connection only: no operation
\* ends in an error.
AcquireNeverFails == Errors = {}

\* C36, the safety half: a connection that a handshake yielded to an open
\* pool is not sent to disconnecting by the return_conn that receives it.
FreshKept ==
    \A e \in Returns : (e.from = "new" /\ e.secs = 0) => e.dest # "disconnecting"

\* With pool_min at least 1, the GetConn of a lone borrower resolves in the
\* end.
LoneAbovePoolMinZero == (Lone /\ [](opts.pool_min >= 1)) => Resolves(1)

\* Every GetConn of every task resolves in the end, other borrowers or not.
AllResolve == \A g \in Getters : Resolves(g)

====
